---- MODULE Spec2Model ----
(***************************************************************************)
(* Model of the AchillesDB database service layer (package dbservice) and  *)
(* of the FAISS index cache (package faiss).                               *)
(*                                                                         *)
(* The KV engine is modelled as a set of tables, each a finite map from    *)
(* string keys to values; every single KV call and every batch commit is   *)
(* one atomic step.  An index file is a sequence of vectors; a vector is   *)
(* identified by the document it was computed from and the insert call     *)
(* that added it.  A cached index is a heap object that can be referenced  *)
(* by a caller after the cache has dropped it.                             *)
(***************************************************************************)
EXTENDS Integers, Sequences, FiniteSets, TLC

\* ------------------------------------------------------------------------
\* Bounds of the model
\* ------------------------------------------------------------------------
MaxOps == 4

MaxOpsConc == 3

MaxOpsQuery == 3

MaxOpsCatalog == 4

MaxFaults == 1

CacheCap == 1

MaxOpsCache == 4

MaxCacheSize == 2

\* Calls and kills in a run with kills
MaxOpsCrash == 5
MaxOpsLocks == 3
MaxOpsCreate == 3

\* Calls of matchesFilter in a run
MaxOpsFilter == 1

\* Depth of nesting of $and and $or in the filters
MaxFilterDepth == 2

Dbs == {"d1", "d2"}

Colls == {"c1", "c2"}

Ids == {"a", "b"}

Procs == {"p1", "p2"}

NoProc == "none"

NoRef == 0

\* ------------------------------------------------------------------------
\* KV tables as finite maps
\* ------------------------------------------------------------------------
EmptyMap == [k \in {} |-> 0]

Has(t, k) == k \in DOMAIN t

Put(t, k, v) == [x \in (DOMAIN t) \cup {k} |-> IF x = k THEN v ELSE t[x]]

Del(t, k) == [x \in (DOMAIN t) \ {k} |-> t[x]]

RECURSIVE PutAll(_, _, _)
PutAll(t, keys, vals) ==
    IF keys = <<>> THEN t
    ELSE PutAll(Put(t, Head(keys), Head(vals)), Tail(keys), Tail(vals))

\* ------------------------------------------------------------------------
\* Names, keys and URIs
\* ------------------------------------------------------------------------
CATALOG == "table:_catalog"

STATS == "table:_stats"

LABELS_TO_DOC_ID_MAPPING_TABLE_URI == "table:label_docID"

GetVectorsFilePath == "volumes/vectors"

DigitStr == <<"0", "1", "2", "3", "4", "5", "6", "7", "8", "9">>

RECURSIVE FormatInt(_)
FormatInt(n) ==
    IF n < 0 THEN "-" \o FormatInt(0 - n)
    ELSE IF n < 10 THEN DigitStr[n + 1]
    ELSE FormatInt(n \div 10) \o DigitStr[(n % 10) + 1]

DbKey(d) == "db:" \o d

CollectionKey(d, c) == d \o "." \o c

CollectionTableUri(d, c) == "table:collection-" \o c \o "-" \o d

VectorIndexUri(c) == GetVectorsFilePath \o "/" \o c \o ".index"

DbCatalogEntry(d) == [kind |-> "db", Name |-> d]

CollectionCatalogEntry(d, c) ==
    [kind |-> "coll", Ns |-> CollectionKey(d, c),
     TableUri |-> CollectionTableUri(d, c),
     VectorIndexUri |-> VectorIndexUri(c)]

CollectionStats(n, sz) == [Doc_Count |-> n, Vector_Index_Size |-> sz]

\* ------------------------------------------------------------------------
\* Documents and vectors
\* ------------------------------------------------------------------------
NumVal(n) == [t |-> "num", v |-> n]

StrVal(x) == [t |-> "str", v |-> x]

\* Metadata the clients of the model attach to a document id
MetaOf(id) == IF id = "a" THEN Put(EmptyMap, "k", NumVal(1))
              ELSE Put(EmptyMap, "k", StrVal("x"))

\* GlowstickDocument as stored in a collection table.  Content carries the
\* number of the insert call that supplied it.
GlowstickDocument(id, content, emb, meta) ==
    [Id |-> id, Content |-> content, Embedding |-> emb, Metadata |-> meta]

\* One vector of an index: the document it embeds, the collection the
\* insert call was addressed to, the number of that call, and the number of
\* its components (the dimension of the index that holds it).
Vector(ns, id, bid, dim) == [ns |-> ns, id |-> id, bid |-> bid, dim |-> dim]

\* len(doc.Embedding) of the documents of a batch whose embeddings the
\* client did not single out
DefaultDim == 2

DefaultDims(docs) == [i \in 1..Len(docs) |-> DefaultDim]

\* ------------------------------------------------------------------------
\* State
\* ------------------------------------------------------------------------
VARIABLES
    catalog,    \* table:_catalog : key -> database or collection record
    tables,     \* collection tables : TableUri -> (document id -> document)
    stats,      \* table:_stats : collection key -> CollectionStats
    labels,     \* table:label_docID : decimal label -> document id
    files,      \* index files : path -> sequence of vectors
    indexes,    \* IndexCache.indexes : path -> reference of a CachedIndex
    entries,    \* heap of CachedIndex objects : reference -> object
    clock,      \* time.Now()
    maxSize,    \* IndexCache.maxSize
    pc,         \* position of every caller
    op,         \* locals of the call every caller is in
    ret,        \* what the last call of every caller returned
    nops,       \* calls accepted so far
    budget,     \* calls the run may start
    faults,     \* engine failures injected so far
    nextBid,    \* number of the next insert call
    done,       \* insert calls that returned, in order of return
    qdocs       \* documents the last call of every caller returned

vars == <<catalog, tables, stats, labels, files, indexes, entries, clock,
          maxSize, pc, op, ret, nops, budget, faults, nextBid, done, qdocs>>

kvVars == <<catalog, tables, stats, labels>>

cacheVars == <<indexes, entries, clock, maxSize>>

NoColl == CollectionCatalogEntry("", "")

\* Locals of a QueryCollection call: the query, the ANN answer, and the state
\* of the fan-out (next and end position of every worker, resultChan, the
\* results map, whether resultChan is closed).  fault and seen record, per
\* ANN position, the engine failure injected into its lookup and how often
\* processDoc ran on it.
IdleQuery ==
    [TopK |-> 0, MaxDistance |-> 0, QueryEmbedding |-> "first",
     Filters |-> [t |-> "nil", v |-> 0],
     ids |-> <<>>, distances |-> <<>>, docs |-> <<>>,
     next |-> <<>>, end |-> <<>>, chan |-> <<>>, results |-> EmptyMap,
     closed |-> FALSE, fault |-> <<>>, seen |-> <<>>]

IdleOp ==
    [kind |-> "none", d |-> "", c |-> "", docs |-> <<>>, dims |-> <<>>,
     soa |-> FALSE,
     coll |-> NoColl, cached |-> NoRef, locked |-> FALSE,
     startLabel |-> 0, bid |-> 0, hot |-> CollectionStats(0, 0),
     i |-> 0, deletedCount |-> 0, updates |-> EmptyMap,
     before |-> [tables |-> EmptyMap, stats |-> EmptyMap],
     todo |-> <<>>, busy |-> {},
     doc |-> GlowstickDocument("", 0, "nil", EmptyMap),
     q |-> IdleQuery]

\* CachedIndex: Index is the content of the FAISS index it wraps and Dim the
\* dimension of that index, freed tells whether Index.Free() has run on it,
\* mu is the holder of its mutex.
CachedIndex(idx, dim, path, now) ==
    [Index |-> idx, Dim |-> dim, Path |-> path, Dirty |-> FALSE,
     LastUsed |-> now, freed |-> FALSE, mu |-> NoProc]

\* Go's collector: a CachedIndex lives while the cache or a caller
\* references it.
Live(ents, idxs, ops) ==
    LET used == {idxs[k] : k \in DOMAIN idxs} \cup {ops[p].cached : p \in Procs}
    IN  [r \in (DOMAIN ents) \cap used |-> ents[r]]

NewRef(ents) == CHOOSE r \in 1..(Cardinality(DOMAIN ents) + 1) : r \notin DOMAIN ents

Init ==
    /\ catalog = EmptyMap
    /\ tables = EmptyMap
    /\ stats = EmptyMap
    /\ labels = EmptyMap
    /\ files = EmptyMap
    /\ indexes = EmptyMap
    /\ entries = EmptyMap
    /\ clock = 1
    /\ maxSize = CacheCap
    /\ pc = [p \in Procs |-> "idle"]
    /\ op = [p \in Procs |-> IdleOp]
    /\ ret = [p \in Procs |-> "none"]
    /\ nops = 0
    /\ budget = MaxOps
    /\ faults = 0
    /\ nextBid = 1
    /\ done = <<>>
    /\ qdocs = [p \in Procs |-> <<>>]

\* The positions of an insert call after labelWriter.Commit() has succeeded
LabelsCommitted == {"write", "stats_get", "stats_put"}

\* A call returns: deferred Unlock of the entry it locked, result recorded.
ReturnsWith(p, res, ents, docs) ==
    /\ pc' = [pc EXCEPT ![p] = "idle"]
    /\ ret' = [ret EXCEPT ![p] = res]
    /\ op' = [op EXCEPT ![p] = IdleOp]
    /\ done' = IF op[p].kind = "insert"
               THEN Append(done, [bid |-> op[p].bid, ns |-> op[p].coll.Ns,
                                  ids |-> op[p].docs, start |-> op[p].startLabel,
                                  labelled |-> pc[p] \in LabelsCommitted,
                                  res |-> res])
               ELSE done
    /\ qdocs' = [qdocs EXCEPT ![p] = docs]
    /\ entries' = Live(IF op[p].locked
                       THEN [ents EXCEPT ![op[p].cached].mu = NoProc]
                       ELSE ents,
                       indexes', op')

Returns(p, res, ents) == ReturnsWith(p, res, ents, <<>>)

\* A call passed its validation: the caller has no result until it returns
Begins(p) ==
    /\ ret' = [ret EXCEPT ![p] = "none"]
    /\ qdocs' = [qdocs EXCEPT ![p] = <<>>]
    /\ UNCHANGED <<done, entries>>

\* The budget of a run counts the calls that pass their validation
Accepted(p) == nops' = IF pc'[p] = "idle" THEN nops ELSE nops + 1

CanStart(p) == pc[p] = "idle" /\ nops < budget

CanFail == faults < MaxFaults

HasPrefix(k, pre) == Len(k) >= Len(pre) /\ SubSeq(k, 1, Len(pre)) = pre

\* ScanRangeBinary(CATALOG, name + ".", name + "/"): "/" is the successor of
\* ".", so the range holds exactly the keys that start with name + ".".
\* The cursor yields every key of the range once.
ScanCollections(cat, name) ==
    LET keys == {k \in DOMAIN cat : HasPrefix(k, name \o ".")}
        RECURSIVE Ordered(_)
        Ordered(ks) ==
            IF ks = {} THEN <<>>
            ELSE LET k == CHOOSE x \in ks : TRUE
                 IN  <<cat[k]>> \o Ordered(ks \ {k})
    IN  Ordered(keys)

\* ------------------------------------------------------------------------
\* CreateDB
\* ------------------------------------------------------------------------
CreateDB(p, d) ==
    /\ CanStart(p)
    /\ UNCHANGED <<kvVars, files, indexes, clock, maxSize, budget, faults, nextBid>>
    /\ IF d = ""
       THEN Returns(p, "InvalidInput", entries)
       ELSE IF Has(catalog, DbKey(d))
       THEN Returns(p, "AlreadyExists", entries)
       ELSE /\ pc' = [pc EXCEPT ![p] = "cdb_put"]
            /\ op' = [op EXCEPT ![p] = [IdleOp EXCEPT !.kind = "createdb", !.d = d]]
            /\ Begins(p)
    /\ Accepted(p)

CreateDBPut(p) ==
    /\ pc[p] = "cdb_put"
    /\ catalog' = Put(catalog, DbKey(op[p].d), DbCatalogEntry(op[p].d))
    /\ UNCHANGED <<tables, stats, labels, files, indexes, clock, maxSize, nops, budget,
                   faults, nextBid>>
    /\ Returns(p, "ok", entries)

\* ------------------------------------------------------------------------
\* CreateCollection
\* ------------------------------------------------------------------------
CreateCollection(p, d, c) ==
    /\ CanStart(p)
    /\ UNCHANGED <<kvVars, files, indexes, clock, maxSize, budget, faults, nextBid>>
    /\ IF Len(c) = 0
       THEN Returns(p, "InvalidInput", entries)
       ELSE IF Has(tables, CollectionTableUri(d, c))
       THEN Returns(p, "AlreadyExists", entries)
       ELSE /\ pc' = [pc EXCEPT ![p] = "cc_table"]
            /\ op' = [op EXCEPT ![p] = [IdleOp EXCEPT !.kind = "createcoll",
                                           !.d = d, !.c = c,
                                           !.coll = CollectionCatalogEntry(d, c)]]
            /\ Begins(p)
    /\ Accepted(p)

\* CreateTable without "exclusive" succeeds on a table that exists
CreateCollectionTable(p) ==
    /\ pc[p] = "cc_table"
    /\ tables' = IF Has(tables, op[p].coll.TableUri) THEN tables
                 ELSE Put(tables, op[p].coll.TableUri, EmptyMap)
    /\ pc' = [pc EXCEPT ![p] = "cc_catalog"]
    /\ UNCHANGED <<catalog, stats, labels, files, cacheVars, op, ret, nops,
                   budget, faults, nextBid, done, qdocs>>

CreateCollectionCatalog(p) ==
    /\ pc[p] = "cc_catalog"
    /\ catalog' = Put(catalog, CollectionKey(op[p].d, op[p].c), op[p].coll)
    /\ pc' = [pc EXCEPT ![p] = "cc_stats"]
    /\ UNCHANGED <<tables, stats, labels, files, cacheVars, op, ret, nops,
                   budget, faults, nextBid, done, qdocs>>

CreateCollectionStats(p) ==
    /\ pc[p] = "cc_stats"
    /\ stats' = Put(stats, CollectionKey(op[p].d, op[p].c), CollectionStats(0, 0))
    /\ UNCHANGED <<catalog, tables, labels, files, indexes, clock, maxSize, nops, budget,
                   faults, nextBid>>
    /\ Returns(p, "ok", entries)

\* ------------------------------------------------------------------------
\* DeleteCollection
\* ------------------------------------------------------------------------
DeleteCollection(p, d, c) ==
    /\ CanStart(p)
    /\ UNCHANGED <<kvVars, files, indexes, clock, maxSize, budget, faults, nextBid>>
    /\ IF Len(c) = 0
       THEN Returns(p, "InvalidInput", entries)
       ELSE IF ~Has(catalog, CollectionKey(d, c))
       THEN Returns(p, "NotFound", entries)
       ELSE /\ pc' = [pc EXCEPT ![p] = "dc_file"]
            /\ op' = [op EXCEPT ![p] = [IdleOp EXCEPT !.kind = "deletecoll",
                                           !.d = d, !.c = c,
                                           !.coll = catalog[CollectionKey(d, c)]]]
            /\ Begins(p)
    /\ Accepted(p)

\* os.Remove(collection.VectorIndexUri), its error ignored
DeleteCollectionFile(p) ==
    /\ pc[p] = "dc_file"
    /\ files' = IF op[p].coll.VectorIndexUri # ""
                THEN Del(files, op[p].coll.VectorIndexUri) ELSE files
    /\ pc' = [pc EXCEPT ![p] = "dc_catalog"]
    /\ UNCHANGED <<kvVars, cacheVars, op, ret, nops, budget, faults, nextBid, done, qdocs>>

DeleteCollectionCatalog(p) ==
    /\ pc[p] = "dc_catalog"
    /\ catalog' = Del(catalog, CollectionKey(op[p].d, op[p].c))
    /\ pc' = [pc EXCEPT ![p] = "dc_stats"]
    /\ UNCHANGED <<tables, stats, labels, files, cacheVars, op, ret, nops,
                   budget, faults, nextBid, done, qdocs>>

DeleteCollectionStats(p) ==
    /\ pc[p] = "dc_stats"
    /\ stats' = Del(stats, CollectionKey(op[p].d, op[p].c))
    /\ UNCHANGED <<catalog, tables, labels, files, indexes, clock, maxSize, nops, budget,
                   faults, nextBid>>
    /\ Returns(p, "ok", entries)

\* ------------------------------------------------------------------------
\* DeleteDB
\* ------------------------------------------------------------------------
DeleteDB(p, name) ==
    /\ CanStart(p)
    /\ UNCHANGED <<kvVars, files, indexes, clock, maxSize, budget, faults, nextBid>>
    /\ IF name = ""
       THEN Returns(p, "InvalidInput", entries)
       ELSE IF ~Has(catalog, DbKey(name))
       THEN Returns(p, "NotFound", entries)
       ELSE /\ pc' = [pc EXCEPT ![p] = "ddb_scan"]
            /\ op' = [op EXCEPT ![p] = [IdleOp EXCEPT !.kind = "deletedb", !.d = name]]
            /\ Begins(p)
    /\ Accepted(p)

DeleteDBNextCollection(p, todo) ==
    IF todo = <<>>
    THEN /\ pc' = [pc EXCEPT ![p] = "ddb_db"]
         /\ op' = [op EXCEPT ![p].todo = <<>>]
    ELSE /\ pc' = [pc EXCEPT ![p] = "ddb_table"]
         /\ op' = [op EXCEPT ![p].todo = Tail(todo), ![p].coll = Head(todo)]

\* The scan fills collectionsToDelete, which op[p].docs keeps whole while
\* op[p].todo is what the loop has not visited yet
DeleteDBScan(p) ==
    /\ pc[p] = "ddb_scan"
    /\ LET collectionsToDelete == ScanCollections(catalog, op[p].d)
       IN  IF collectionsToDelete = <<>>
           THEN /\ pc' = [pc EXCEPT ![p] = "ddb_db"]
                /\ UNCHANGED op
           ELSE /\ pc' = [pc EXCEPT ![p] = "ddb_table"]
                /\ op' = [op EXCEPT ![p].docs = collectionsToDelete,
                                    ![p].todo = Tail(collectionsToDelete),
                                    ![p].coll = Head(collectionsToDelete)]
    /\ UNCHANGED <<kvVars, files, cacheVars, ret, nops, budget, faults, nextBid, done, qdocs>>

\* DeleteTable: "not found" and "busy" are ignored
DeleteDBTable(p) ==
    /\ pc[p] = "ddb_table"
    /\ tables' = Del(tables, op[p].coll.TableUri)
    /\ pc' = [pc EXCEPT ![p] = "ddb_file"]
    /\ UNCHANGED <<catalog, stats, labels, files, cacheVars, op, ret, nops,
                   budget, faults, nextBid, done, qdocs>>

DeleteDBFile(p) ==
    /\ pc[p] = "ddb_file"
    /\ files' = IF op[p].coll.VectorIndexUri # ""
                THEN Del(files, op[p].coll.VectorIndexUri) ELSE files
    /\ pc' = [pc EXCEPT ![p] = "ddb_catalog"]
    /\ UNCHANGED <<kvVars, cacheVars, op, ret, nops, budget, faults, nextBid, done, qdocs>>

\* DeleteDBCatalog with the delete of the collection's record left out
DeleteDBCatalogKept(p) ==
    /\ pc[p] = "ddb_catalog"
    /\ pc' = [pc EXCEPT ![p] = "ddb_stats"]
    /\ UNCHANGED <<catalog, tables, stats, labels, files, cacheVars, op, ret, nops,
                   budget, faults, nextBid, done, qdocs>>

DeleteDBCatalog(p) ==
    /\ pc[p] = "ddb_catalog"
    /\ catalog' = Del(catalog, op[p].coll.Ns)
    /\ pc' = [pc EXCEPT ![p] = "ddb_stats"]
    /\ UNCHANGED <<tables, stats, labels, files, cacheVars, op, ret, nops,
                   budget, faults, nextBid, done, qdocs>>

DeleteDBStats(p) ==
    /\ pc[p] = "ddb_stats"
    /\ stats' = Del(stats, op[p].coll.Ns)
    /\ DeleteDBNextCollection(p, op[p].todo)
    /\ UNCHANGED <<catalog, tables, labels, files, cacheVars, ret, nops,
                   budget, faults, nextBid, done, qdocs>>

DeleteDBEntry(p) ==
    /\ pc[p] = "ddb_db"
    /\ catalog' = Del(catalog, DbKey(op[p].d))
    /\ UNCHANGED <<tables, stats, labels, files, indexes, clock, maxSize, nops, budget,
                   faults, nextBid>>
    /\ Returns(p, "ok", entries)

\* ------------------------------------------------------------------------
\* Engine failures in the catalog operations
\* ------------------------------------------------------------------------
\* The KV call of a step that writes returns an error: the call ends with
\* Storage and what the earlier steps wrote stays
CreateDBFails(p) ==
    /\ pc[p] = "cdb_put"
    /\ CanFail
    /\ faults' = faults + 1
    /\ UNCHANGED <<kvVars, files, indexes, clock, maxSize, nops, budget, nextBid>>
    /\ Returns(p, "Storage", entries)

CreateCollectionFails(p) ==
    /\ pc[p] \in {"cc_table", "cc_catalog", "cc_stats"}
    /\ CanFail
    /\ faults' = faults + 1
    /\ UNCHANGED <<kvVars, files, indexes, clock, maxSize, nops, budget, nextBid>>
    /\ Returns(p, "Storage", entries)

DeleteCollectionFails(p) ==
    /\ pc[p] = "dc_catalog"
    /\ CanFail
    /\ faults' = faults + 1
    /\ UNCHANGED <<kvVars, files, indexes, clock, maxSize, nops, budget, nextBid>>
    /\ Returns(p, "Storage", entries)

\* kv.DeleteBinary(STATS, ...) of DeleteCollection: its error is dropped
DeleteCollectionStatsIgnored(p) ==
    /\ pc[p] = "dc_stats"
    /\ CanFail
    /\ faults' = faults + 1
    /\ UNCHANGED <<kvVars, files, indexes, clock, maxSize, nops, budget, nextBid>>
    /\ Returns(p, "ok", entries)

DeleteDBFails(p) ==
    /\ pc[p] \in {"ddb_scan", "ddb_table", "ddb_catalog", "ddb_stats", "ddb_db"}
    /\ CanFail
    /\ faults' = faults + 1
    /\ UNCHANGED <<kvVars, files, indexes, clock, maxSize, nops, budget, nextBid>>
    /\ Returns(p, "Storage", entries)

\* DeleteTable answers "busy": the error is ignored and the table stays.
\* op[p].busy remembers the tables the engine kept.
DeleteDBTableBusy(p) ==
    /\ pc[p] = "ddb_table"
    /\ Has(tables, op[p].coll.TableUri)
    /\ CanFail
    /\ faults' = faults + 1
    /\ op' = [op EXCEPT ![p].busy = @ \cup {op[p].coll.TableUri}]
    /\ pc' = [pc EXCEPT ![p] = "ddb_file"]
    /\ UNCHANGED <<kvVars, files, cacheVars, ret, nops, budget, nextBid, done, qdocs>>

\* ------------------------------------------------------------------------
\* GetCollection, ListCollections, ListDatabases
\* ------------------------------------------------------------------------
CollectionEntry(info, st) == [Info |-> info, Stats |-> st]

\* The record and the stats GetCollection reads; stats that are missing are
\* returned as the zero value
ReadCollection(cat, sts, key) ==
    CollectionEntry(cat[key],
                    IF Has(sts, key) THEN sts[key] ELSE CollectionStats(0, 0))

GetCollection(p, d, c) ==
    /\ CanStart(p)
    /\ UNCHANGED <<kvVars, files, indexes, clock, maxSize, nops, budget, faults, nextBid>>
    /\ LET key == CollectionKey(d, c)
       IN  IF d = ""
           THEN Returns(p, "InvalidInput", entries)
           ELSE IF ~Has(catalog, key)
           THEN Returns(p, "NotFound", entries)
           ELSE ReturnsWith(p, "ok", entries, <<ReadCollection(catalog, stats, key)>>)

ListCollections(p, d) ==
    /\ CanStart(p)
    /\ UNCHANGED <<kvVars, files, indexes, clock, maxSize, nops, budget, faults, nextBid>>
    /\ IF d = ""
       THEN Returns(p, "InvalidInput", entries)
       ELSE ReturnsWith(p, "ok", entries, ScanCollections(catalog, d))

DatabaseInfo(name, collCount) ==
    [Name |-> name, CollectionCount |-> collCount, Empty |-> (collCount = 0)]

\* ScanRangeBinary(CATALOG, "db:", "db;"): ";" is the successor of ":", so
\* the range holds exactly the keys that start with "db:"; for each, the
\* count of the keys in the range of its collections
ScanDatabases(cat) ==
    LET keys == {k \in DOMAIN cat : HasPrefix(k, "db:")}
        RECURSIVE Ordered(_)
        Ordered(ks) ==
            IF ks = {} THEN <<>>
            ELSE LET k == CHOOSE x \in ks : TRUE
                 IN  <<DatabaseInfo(cat[k].Name,
                                    Len(ScanCollections(cat, cat[k].Name)))>>
                     \o Ordered(ks \ {k})
    IN  Ordered(keys)

ListDatabases(p) ==
    /\ CanStart(p)
    /\ UNCHANGED <<kvVars, files, indexes, clock, maxSize, nops, budget, faults, nextBid>>
    /\ ReturnsWith(p, "ok", entries, ScanDatabases(catalog))

\* ------------------------------------------------------------------------
\* IndexCache
\* ------------------------------------------------------------------------
\* ReadIndex(path), and IndexFactory(dimension, "Flat", MetricL2) when the
\* file cannot be read: the content of the index the cache will wrap.
LoadOrCreateIndex(fs, path) == IF Has(fs, path) THEN fs[path] ELSE <<>>

\* The dimension of that index: the one the file records, and the dimension
\* GetOrCreate was called with when the index is created
IndexDimension(fs, path, dimension) ==
    IF Has(fs, path) /\ fs[path] # <<>> THEN fs[path][1].dim ELSE dimension

\* The path evictOldest picks: the entry with the oldest LastUsed
OldestPath(idxs, ents) ==
    CHOOSE path \in DOMAIN idxs :
        \A q \in DOMAIN idxs : ents[idxs[path]].LastUsed <= ents[idxs[q]].LastUsed

\* evictOldest that leaves the map as it is
evictNothing(idxs, ents, fs, written) ==
    [indexes |-> idxs, entries |-> ents, files |-> fs]

\* evictOldest: flush the entry with the oldest LastUsed when it is dirty,
\* free its index, drop it from the map.  The entry mutex is not taken and
\* the error of WriteToFile is dropped: written tells whether the write
\* succeeded.
evictOldest(idxs, ents, fs, written) ==
    IF DOMAIN idxs = {}
    THEN [indexes |-> idxs, entries |-> ents, files |-> fs]
    ELSE LET oldestPath == OldestPath(idxs, ents)
             r == idxs[oldestPath]
         IN  [indexes |-> Del(idxs, oldestPath),
              entries |-> [ents EXCEPT ![r].freed = TRUE],
              files   |-> IF ents[r].Dirty /\ written
                          THEN Put(fs, oldestPath, ents[r].Index)
                          ELSE fs]

\* GetOrCreate is about to evict an entry that it has to write first
EvictionWrites(idxs, ents) ==
    /\ DOMAIN idxs # {}
    /\ Cardinality(DOMAIN idxs) >= maxSize
    /\ ents[idxs[OldestPath(idxs, ents)]].Dirty

\* GetOrCreate, first half: lookup under the read lock of the map
GetOrCreate(p) ==
    /\ pc[p] = "goc_read"
    /\ LET path == op[p].coll.VectorIndexUri
       IN  IF Has(indexes, path)
           THEN /\ op' = [op EXCEPT ![p].cached = indexes[path]]
                /\ entries' = [entries EXCEPT ![indexes[path]].LastUsed = clock]
                /\ clock' = clock + 1
                /\ UNCHANGED maxSize
                /\ pc' = [pc EXCEPT ![p] = "lock"]
           ELSE /\ pc' = [pc EXCEPT ![p] = "goc_write"]
                /\ UNCHANGED <<op, entries, clock, maxSize>>
    /\ UNCHANGED <<kvVars, files, indexes, ret, nops, budget, faults, nextBid, done, qdocs>>

\* GetOrCreate, second half: under the write lock of the map, check again,
\* load or create the index, evict when the map is full, insert the entry.
GetOrCreateLocked(p) ==
    /\ pc[p] = "goc_write"
    /\ LET path == op[p].coll.VectorIndexUri
       IN  IF Has(indexes, path)
           THEN /\ op' = [op EXCEPT ![p].cached = indexes[path]]
                /\ entries' = [entries EXCEPT ![indexes[path]].LastUsed = clock]
                /\ UNCHANGED <<indexes, files, faults>>
           ELSE \E written \in BOOLEAN :
                /\ written \/ (CanFail /\ EvictionWrites(indexes, entries))
                /\ faults' = IF written THEN faults ELSE faults + 1
                /\ LET idx == LoadOrCreateIndex(files, path)
                       ev  == IF Cardinality(DOMAIN indexes) >= maxSize
                              THEN evictOldest(indexes, entries, files, written)
                              ELSE [indexes |-> indexes, entries |-> entries,
                                    files |-> files]
                       r   == NewRef(ev.entries)
                   IN  /\ op' = [op EXCEPT ![p].cached = r]
                       /\ indexes' = Put(ev.indexes, path, r)
                       /\ files' = ev.files
                       /\ entries' = Live(Put(ev.entries, r,
                                              CachedIndex(idx,
                                                  IndexDimension(files, path,
                                                                 op[p].dims[1]),
                                                  path, clock)),
                                          indexes', op')
    /\ clock' = clock + 1
    /\ UNCHANGED maxSize
    /\ pc' = [pc EXCEPT ![p] = "lock"]
    /\ UNCHANGED <<kvVars, ret, nops, budget, nextBid, done, qdocs>>

\* CachedIndex.Lock
Lock(p) ==
    /\ pc[p] = "lock"
    /\ op[p].kind = "insert"
    /\ entries[op[p].cached].mu = NoProc
    /\ entries' = [entries EXCEPT ![op[p].cached].mu = p]
    /\ op' = [op EXCEPT ![p].locked = TRUE]
    /\ pc' = [pc EXCEPT ![p] = "ntotal"]
    /\ UNCHANGED <<kvVars, files, indexes, clock, maxSize, ret, nops, budget, faults,
                   nextBid, done, qdocs>>

\* ------------------------------------------------------------------------
\* IndexCache as its callers may use it: GetOrCreate and a change of the
\* index it returns, MarkDirty, FlushOne, FlushAll, Remove, Close
\* ------------------------------------------------------------------------
\* An operation on an index that Free() has run on either reports an error
\* or still works on the released memory; an engine failure can be injected
\* while the run has failures left.
Fails(e) ==
    \/ e.freed /\ faults' = faults
    \/ CanFail /\ faults' = faults + 1

CacheColl(path) == [NoColl EXCEPT !.VectorIndexUri = path]

\* A call of GetOrCreate(path, dimension); GetOrCreate and GetOrCreateLocked
\* are its steps
CacheGetOrCreate(p, path) ==
    /\ CanStart(p)
    /\ pc' = [pc EXCEPT ![p] = "goc_read"]
    /\ op' = [op EXCEPT ![p] = [IdleOp EXCEPT !.kind = "cache",
                                   !.coll = CacheColl(path),
                                   !.dims = <<DefaultDim>>]]
    /\ Begins(p)
    /\ Accepted(p)
    /\ UNCHANGED <<kvVars, files, indexes, clock, maxSize, budget, faults, nextBid>>

\* The caller of GetOrCreate locks the entry, adds a vector to its index and
\* unlocks it
CacheHandleAdd(p) ==
    /\ pc[p] = "lock"
    /\ op[p].kind = "cache"
    /\ entries[op[p].cached].mu = NoProc
    /\ UNCHANGED <<kvVars, files, indexes, clock, maxSize, nops, budget, faults, nextBid>>
    /\ LET r == op[p].cached
           v == Vector("", "v", 0, entries[r].Dim)
       IN  Returns(p, "ok", [entries EXCEPT ![r].Index = Append(@, v)])

\* The caller of GetOrCreate drops the entry it was given
CacheHandleDrop(p) ==
    /\ pc[p] = "lock"
    /\ op[p].kind = "cache"
    /\ UNCHANGED <<kvVars, files, indexes, clock, maxSize, nops, budget, faults, nextBid>>
    /\ Returns(p, "ok", entries)

\* MarkDirty(path), under the read lock of the map
MarkDirty(p, path) ==
    /\ CanStart(p)
    /\ UNCHANGED <<kvVars, files, indexes, clock, maxSize, nops, budget, faults, nextBid>>
    /\ Returns(p, "ok", IF Has(indexes, path)
                        THEN [entries EXCEPT ![indexes[path]].Dirty = TRUE]
                        ELSE entries)

\* The sequences that hold every element of S once: the orders in which a
\* range statement may visit a map
Orders(S) ==
    {s \in [1..Cardinality(S) -> S] : \A i, j \in DOMAIN s : s[i] = s[j] => i = j}

\* FlushOne, FlushAll, Remove and Close begin with the flush of the paths
\* they are about
CacheFlushStart(p, kind, paths) ==
    /\ CanStart(p)
    /\ pc' = [pc EXCEPT ![p] = "fl_next"]
    /\ op' = [op EXCEPT ![p] = [IdleOp EXCEPT !.kind = kind, !.docs = paths,
                                   !.todo = paths]]
    /\ Begins(p)
    /\ Accepted(p)
    /\ UNCHANGED <<kvVars, files, indexes, clock, maxSize, budget, faults, nextBid>>

FlushOne(p, path) == CacheFlushStart(p, "flushone", <<path>>)

\* FlushAll copies the paths of the map under its read lock
FlushAll(p) == \E paths \in Orders(DOMAIN indexes) : CacheFlushStart(p, "flushall", paths)

Remove(p, path) == CacheFlushStart(p, "remove", <<path>>)

Close(p) == \E paths \in Orders(DOMAIN indexes) : CacheFlushStart(p, "close", paths)

\* FlushOne: the lookup of the next path under the read lock; after the last
\* path FlushOne and FlushAll return, Remove and Close go on to free
FlushLookup(p) ==
    /\ pc[p] = "fl_next"
    /\ UNCHANGED <<kvVars, files, indexes, clock, maxSize, nops, budget, faults, nextBid>>
    /\ IF op[p].todo = <<>>
       THEN IF op[p].kind \in {"flushone", "flushall"}
            THEN Returns(p, "ok", entries)
            ELSE /\ pc' = [pc EXCEPT ![p] = IF op[p].kind = "remove"
                                            THEN "rm_free" ELSE "cl_free"]
                 /\ UNCHANGED <<op, ret, done, qdocs, entries>>
       ELSE IF ~Has(indexes, Head(op[p].todo))
       THEN /\ op' = [op EXCEPT ![p].todo = Tail(@)]
            /\ UNCHANGED <<pc, ret, done, qdocs, entries>>
       ELSE /\ op' = [op EXCEPT ![p].cached = indexes[Head(op[p].todo)]]
            /\ pc' = [pc EXCEPT ![p] = "fl_lock"]
            /\ UNCHANGED <<ret, done, qdocs, entries>>

\* FlushOne: cached.Lock()
FlushLock(p) ==
    /\ pc[p] = "fl_lock"
    /\ entries[op[p].cached].mu = NoProc
    /\ entries' = [entries EXCEPT ![op[p].cached].mu = p]
    /\ op' = [op EXCEPT ![p].locked = TRUE]
    /\ pc' = [pc EXCEPT ![p] = "fl_write"]
    /\ UNCHANGED <<kvVars, files, indexes, clock, maxSize, ret, nops, budget, faults,
                   nextBid, done, qdocs>>

\* FlushOne without its deferred Unlock
FlushWriteKeepsLock(p) ==
    /\ pc[p] = "fl_write"
    /\ op' = [op EXCEPT ![p].todo = Tail(@), ![p].cached = NoRef, ![p].locked = FALSE]
    /\ pc' = [pc EXCEPT ![p] = "fl_next"]
    /\ UNCHANGED <<kvVars, files, indexes, entries, clock, maxSize, ret, nops, budget,
                   faults, nextBid, done, qdocs>>

\* FlushOne: nothing to do for an entry that is not dirty; WriteToFile and
\* Dirty = false for one that is; the deferred Unlock
FlushWrite(p) ==
    /\ pc[p] = "fl_write"
    /\ UNCHANGED <<kvVars, indexes, clock, maxSize, nops, budget, nextBid>>
    /\ LET r == op[p].cached
           e == entries[r]
           next == [op EXCEPT ![p].todo = Tail(@), ![p].cached = NoRef,
                              ![p].locked = FALSE]
       IN  \/ /\ ~e.Dirty
              /\ op' = next
              /\ entries' = Live([entries EXCEPT ![r].mu = NoProc], indexes, op')
              /\ pc' = [pc EXCEPT ![p] = "fl_next"]
              /\ UNCHANGED <<files, faults, ret, done, qdocs>>
           \/ /\ e.Dirty
              /\ files' = Put(files, Head(op[p].todo), e.Index)
              /\ op' = next
              /\ entries' = Live([entries EXCEPT ![r].mu = NoProc, ![r].Dirty = FALSE],
                                 indexes, op')
              /\ pc' = [pc EXCEPT ![p] = "fl_next"]
              /\ UNCHANGED <<faults, ret, done, qdocs>>
           \/ /\ e.Dirty
              /\ Fails(e)
              /\ UNCHANGED files
              /\ Returns(p, "Storage", entries)

\* Remove, after FlushOne: under the write lock of the map, Free and delete
RemoveFree(p) ==
    /\ pc[p] = "rm_free"
    /\ UNCHANGED <<kvVars, files, clock, maxSize, nops, budget, faults, nextBid>>
    /\ LET path == op[p].docs[1]
       IN  IF Has(indexes, path)
           THEN /\ indexes' = Del(indexes, path)
                /\ Returns(p, "ok", [entries EXCEPT ![indexes[path]].freed = TRUE])
           ELSE /\ UNCHANGED indexes
                /\ Returns(p, "ok", entries)

\* Close, after FlushAll: under the write lock of the map, Free every index
\* and replace the map by an empty one
CloseFree(p) ==
    /\ pc[p] = "cl_free"
    /\ UNCHANGED <<kvVars, files, clock, maxSize, nops, budget, faults, nextBid>>
    /\ indexes' = EmptyMap
    /\ Returns(p, "ok", [r \in DOMAIN entries |->
                            IF \E path \in DOMAIN indexes : indexes[path] = r
                            THEN [entries[r] EXCEPT !.freed = TRUE]
                            ELSE entries[r]])

\* ------------------------------------------------------------------------
\* InsertDocuments and InsertDocumentsSOA
\* ------------------------------------------------------------------------
\* GlowstickDocumentSOA.Validate and the checks of the SOA handler: the
\* embeddings are not empty and every document has as many components as
\* the first
ValidSOA(dims) ==
    /\ Len(dims) > 0
    /\ dims[1] # 0
    /\ \A i \in 1..Len(dims) : dims[i] = dims[1]

\* The checks both insert calls make before they touch the index, in the
\* order each makes them: the answer of the call, "ok" when it goes on
InsertCheck(cat, d, c, docs, dims, soa) ==
    IF Len(docs) = 0 \/ (soa /\ ~ValidSOA(dims)) THEN "InvalidInput"
    ELSE IF ~Has(cat, CollectionKey(d, c)) THEN "NotFound"
    ELSE IF dims[1] = 0 THEN "InvalidInput"
    ELSE "ok"

\* The entry of both insert calls.  dims[i] is the number of components of
\* the embedding of document i.
InsertStart(p, d, c, docs, dims, soa) ==
    /\ CanStart(p)
    /\ UNCHANGED <<kvVars, files, indexes, clock, maxSize, budget, faults>>
    /\ IF InsertCheck(catalog, d, c, docs, dims, soa) # "ok"
       THEN /\ Returns(p, InsertCheck(catalog, d, c, docs, dims, soa), entries)
            /\ UNCHANGED nextBid
       ELSE /\ pc' = [pc EXCEPT ![p] = "goc_read"]
            /\ op' = [op EXCEPT ![p] = [IdleOp EXCEPT !.kind = "insert",
                                           !.d = d, !.c = c, !.docs = docs,
                                           !.dims = dims,
                                           !.soa = soa, !.bid = nextBid,
                                           !.coll = catalog[CollectionKey(d, c)]]]
            /\ nextBid' = nextBid + 1
            /\ Begins(p)
    /\ Accepted(p)

InsertDocuments(p, d, c, docs) ==
    InsertStart(p, d, c, docs, DefaultDims(docs), FALSE)

InsertDocumentsSOA(p, d, c, docs) ==
    InsertStart(p, d, c, docs, DefaultDims(docs), TRUE)

\* InsertDocuments with documents whose embeddings have dims[i] components
InsertEmbeddings(p, d, c, docs, dims) == InsertStart(p, d, c, docs, dims, FALSE)

\* InsertDocumentsSOA with a flat embeddings array of dims[i] components per
\* document
InsertEmbeddingsSOA(p, d, c, docs, dims) == InsertStart(p, d, c, docs, dims, TRUE)

\* idx.NTotal()
InsertNTotal(p) ==
    /\ pc[p] = "ntotal"
    /\ UNCHANGED <<kvVars, files, indexes, clock, maxSize, nops, budget, nextBid>>
    /\ LET e == entries[op[p].cached]
       IN  \/ /\ op' = [op EXCEPT ![p].startLabel = Len(e.Index)]
              /\ pc' = [pc EXCEPT ![p] = "doc_commit"]
              /\ UNCHANGED <<entries, ret, done, qdocs, faults>>
           \/ /\ e.freed
              /\ UNCHANGED faults
              /\ Returns(p, "Internal", entries)

\* BatchRows with the metadata left out of the rows of the SOA path
BatchRowsWithoutMetadata(o) ==
    [i \in 1..Len(o.docs) |->
        GlowstickDocument(o.docs[i], o.bid,
                          IF o.soa THEN "nil" ELSE "vec",
                          IF o.soa THEN EmptyMap ELSE MetaOf(o.docs[i]))]

\* The rows the batch writer buffers: later puts of a key replace earlier ones
BatchRows(o) ==
    [i \in 1..Len(o.docs) |->
        GlowstickDocument(o.docs[i], o.bid,
                          IF o.soa THEN "nil" ELSE "vec", MetaOf(o.docs[i]))]

\* The checks of the loop over the documents: no embedding is empty and
\* every embedding has the dimension of the first
SameDimension(dims) ==
    \A i \in 1..Len(dims) : dims[i] # 0 /\ dims[i] = dims[1]

\* An insert that commits its label mappings together with its rows
InsertDocCommitWithLabels(p) ==
    /\ pc[p] = "doc_commit"
    /\ UNCHANGED <<catalog, stats, files, indexes, clock, maxSize, nops, budget,
                   nextBid>>
    /\ LET uri == op[p].coll.TableUri
       IN  \/ /\ ~SameDimension(op[p].dims)
              /\ UNCHANGED <<tables, labels, faults>>
              /\ Returns(p, "InvalidInput", entries)
           \/ /\ SameDimension(op[p].dims)
              /\ Has(tables, uri)
              /\ tables' = Put(tables, uri,
                               PutAll(tables[uri], op[p].docs, BatchRows(op[p])))
              /\ labels' = PutAll(labels,
                                [i \in 1..Len(op[p].docs) |->
                                    FormatInt(op[p].startLabel + (i - 1))],
                                op[p].docs)
              /\ pc' = [pc EXCEPT ![p] = "add"]
              /\ UNCHANGED <<entries, op, ret, done, qdocs, faults>>
           \/ /\ \/ ~Has(tables, uri) /\ faults' = faults
                 \/ CanFail /\ faults' = faults + 1
              /\ UNCHANGED <<tables, labels>>
              /\ Returns(p, "Storage", entries)

\* NewBatchWriter on the collection table, the buffered puts, docWriter.Commit().
\* A document that fails the checks of the loop ends the call before the
\* commit, and the writer drops what it buffered.
InsertDocCommit(p) ==
    /\ pc[p] = "doc_commit"
    /\ UNCHANGED <<catalog, stats, labels, files, indexes, clock, maxSize, nops, budget,
                   nextBid>>
    /\ LET uri == op[p].coll.TableUri
       IN  \/ /\ ~SameDimension(op[p].dims)
              /\ UNCHANGED <<tables, faults>>
              /\ Returns(p, "InvalidInput", entries)
           \/ /\ SameDimension(op[p].dims)
              /\ Has(tables, uri)
              /\ tables' = Put(tables, uri,
                               PutAll(tables[uri], op[p].docs, BatchRows(op[p])))
              /\ pc' = [pc EXCEPT ![p] = "add"]
              /\ UNCHANGED <<entries, op, ret, done, qdocs, faults>>
           \/ /\ \/ ~Has(tables, uri) /\ faults' = faults
                 \/ CanFail /\ faults' = faults + 1
              /\ UNCHANGED tables
              /\ Returns(p, "Storage", entries)

\* The vectors idx.Add appends, in batch order
BatchVectors(o) ==
    [i \in 1..Len(o.docs) |-> Vector(o.coll.Ns, o.docs[i], o.bid, o.dims[1])]

\* What idx.Add(embeddings, n) appends to an index: n vectors of the
\* dimension of the index, taken from the array it is given
AddedVectors(e, o) ==
    [i \in 1..Len(o.docs) |-> Vector(o.coll.Ns, o.docs[i], o.bid, e.Dim)]

\* idx.Add with an array of vectors of another dimension than the index:
\* the adapter may report an error, and may take its n vectors from the
\* array as it is
AddRejects(e, o) == e.Dim # o.dims[1] /\ faults' = faults

\* InsertAdd followed at once by idx.WriteToFile, ahead of the label batch
InsertAddThenWrite(p) ==
    /\ pc[p] = "add"
    /\ UNCHANGED <<kvVars, indexes, clock, maxSize, nops, budget, nextBid>>
    /\ LET r == op[p].cached
       IN  \/ /\ entries' = [entries EXCEPT
                                ![r].Index = @ \o AddedVectors(entries[r], op[p])]
              /\ files' = Put(files, op[p].coll.VectorIndexUri, entries'[r].Index)
              /\ pc' = [pc EXCEPT ![p] = "label_commit"]
              /\ UNCHANGED <<op, ret, done, qdocs, faults>>
           \/ /\ Fails(entries[r]) \/ AddRejects(entries[r], op[p])
              /\ UNCHANGED files
              /\ Returns(p, "Internal", entries)

\* idx.Add(embeddings, n)
InsertAdd(p) ==
    /\ pc[p] = "add"
    /\ UNCHANGED <<kvVars, files, indexes, clock, maxSize, nops, budget, nextBid>>
    /\ LET r == op[p].cached
       IN  \/ /\ entries' = [entries EXCEPT
                                ![r].Index = @ \o AddedVectors(entries[r], op[p])]
              /\ pc' = [pc EXCEPT ![p] = "label_commit"]
              /\ UNCHANGED <<op, ret, done, qdocs, faults>>
           \/ /\ Fails(entries[r]) \/ AddRejects(entries[r], op[p])
              /\ Returns(p, "Internal", entries)

LabelKeys(o) == [i \in 1..Len(o.docs) |-> FormatInt(o.startLabel + (i - 1))]

\* InsertLabelCommit with the error of labelWriter.Commit() dropped
InsertLabelCommitIgnored(p) ==
    /\ pc[p] = "label_commit"
    /\ UNCHANGED <<catalog, tables, stats, files, indexes, clock, maxSize, nops, budget,
                   nextBid>>
    /\ pc' = [pc EXCEPT ![p] = "write"]
    /\ UNCHANGED <<entries, op, ret, done, qdocs>>
    /\ \/ /\ labels' = PutAll(labels, LabelKeys(op[p]), op[p].docs)
          /\ UNCHANGED faults
       \/ /\ CanFail
          /\ faults' = faults + 1
          /\ UNCHANGED labels

\* The label batch: decimal(startLabel + i) -> ids[i], labelWriter.Commit()
InsertLabelCommit(p) ==
    /\ pc[p] = "label_commit"
    /\ UNCHANGED <<catalog, tables, stats, files, indexes, clock, maxSize, nops, budget,
                   nextBid>>
    /\ \/ /\ labels' = PutAll(labels, LabelKeys(op[p]), op[p].docs)
          /\ pc' = [pc EXCEPT ![p] = "write"]
          /\ UNCHANGED <<entries, op, ret, done, qdocs, faults>>
       \/ /\ CanFail
          /\ faults' = faults + 1
          /\ UNCHANGED labels
          /\ Returns(p, "Storage", entries)

\* InsertWriteToFile that removes the label mappings of the batch when
\* idx.WriteToFile fails
InsertWriteToFileUndoesLabels(p) ==
    /\ pc[p] = "write"
    /\ UNCHANGED <<catalog, tables, stats, indexes, clock, maxSize, nops, budget, nextBid>>
    /\ LET r == op[p].cached
           keys == {LabelKeys(op[p])[i] : i \in 1..Len(op[p].docs)}
       IN  \/ /\ files' = Put(files, op[p].coll.VectorIndexUri, entries[r].Index)
              /\ entries' = [entries EXCEPT ![r].Dirty = FALSE]
              /\ pc' = [pc EXCEPT ![p] = "stats_get"]
              /\ UNCHANGED <<labels, op, ret, done, qdocs, faults>>
           \/ /\ Fails(entries[r])
              /\ UNCHANGED files
              /\ labels' = [k \in DOMAIN labels \ keys |-> labels[k]]
              /\ Returns(p, "Storage", entries)

\* idx.WriteToFile(path); cachedIdx.Dirty = false
InsertWriteToFile(p) ==
    /\ pc[p] = "write"
    /\ UNCHANGED <<kvVars, indexes, clock, maxSize, nops, budget, nextBid>>
    /\ LET r == op[p].cached
       IN  \/ /\ files' = Put(files, op[p].coll.VectorIndexUri, entries[r].Index)
              /\ entries' = [entries EXCEPT ![r].Dirty = FALSE]
              /\ pc' = [pc EXCEPT ![p] = "stats_get"]
              /\ UNCHANGED <<op, ret, done, qdocs, faults>>
           \/ /\ Fails(entries[r])
              /\ UNCHANGED files
              /\ Returns(p, "Storage", entries)

\* info.Size() of an index file
FileSize(content) == Len(content)

\* os.Stat(path) and the read of the stats record
InsertStatsGet(p) ==
    /\ pc[p] = "stats_get"
    /\ UNCHANGED <<kvVars, files, indexes, clock, maxSize, nops, budget, nextBid, faults>>
    /\ LET path == op[p].coll.VectorIndexUri
           key  == CollectionKey(op[p].d, op[p].c)
       IN  IF Has(files, path) /\ Has(stats, key)
           THEN /\ op' = [op EXCEPT ![p].hot =
                            CollectionStats(stats[key].Doc_Count,
                                            FileSize(files[path]))]
                /\ pc' = [pc EXCEPT ![p] = "stats_put"]
                /\ UNCHANGED <<entries, ret, done, qdocs>>
           ELSE Returns(p, "Storage", entries)

\* hot_stats_doc.Doc_Count += len(documents); the write of the stats record
InsertStatsPut(p) ==
    /\ pc[p] = "stats_put"
    /\ UNCHANGED <<catalog, tables, labels, files, indexes, clock, maxSize, nops, budget,
                   nextBid>>
    /\ \/ /\ stats' = Put(stats, CollectionKey(op[p].d, op[p].c),
                          CollectionStats(op[p].hot.Doc_Count + Len(op[p].docs),
                                          op[p].hot.Vector_Index_Size))
          /\ UNCHANGED faults
          /\ Returns(p, "ok", entries)
       \/ /\ CanFail
          /\ faults' = faults + 1
          /\ UNCHANGED stats
          /\ Returns(p, "Storage", entries)

\* ------------------------------------------------------------------------
\* DeleteDocuments
\* ------------------------------------------------------------------------
DeleteDocuments(p, d, c, documentIds) ==
    /\ CanStart(p)
    /\ UNCHANGED <<kvVars, files, indexes, clock, maxSize, budget, faults, nextBid>>
    /\ IF Len(documentIds) = 0
       THEN Returns(p, "InvalidInput", entries)
       ELSE IF ~Has(catalog, CollectionKey(d, c))
       THEN Returns(p, "NotFound", entries)
       ELSE /\ pc' = [pc EXCEPT ![p] = "del_doc"]
            /\ op' = [op EXCEPT ![p] = [IdleOp EXCEPT !.kind = "delete",
                                           !.d = d, !.c = c, !.docs = documentIds,
                                           !.i = 1,
                                           !.before = [tables |-> tables,
                                                       stats |-> stats],
                                           !.coll = catalog[CollectionKey(d, c)]]]
            /\ Begins(p)
    /\ Accepted(p)

\* One round of the loop: the existence check and the delete of one id
DeleteDocumentsRound(p, docExists) ==
    LET uri == op[p].coll.TableUri
        docId == op[p].docs[op[p].i]
        deletedCount == op[p].deletedCount + (IF docExists THEN 1 ELSE 0)
    IN  /\ tables' = IF docExists THEN Put(tables, uri, Del(tables[uri], docId))
                     ELSE tables
        /\ IF op[p].i < Len(op[p].docs)
           THEN /\ op' = [op EXCEPT ![p].i = @ + 1, ![p].deletedCount = deletedCount]
                /\ UNCHANGED <<pc, ret, done, qdocs, entries>>
           ELSE IF deletedCount > 0
           THEN /\ op' = [op EXCEPT ![p].deletedCount = deletedCount]
                /\ pc' = [pc EXCEPT ![p] = "del_stats_get"]
                /\ UNCHANGED <<ret, done, qdocs, entries>>
           ELSE Returns(p, "ok", entries)

\* "_, docExists, _ := kv.GetBinaryWithStringKey(...)": the error of the
\* lookup is dropped and a failed lookup reports that the row does not exist;
\* the error of the delete ends the call.
DeleteDocumentsOne(p) ==
    /\ pc[p] = "del_doc"
    /\ UNCHANGED <<catalog, stats, labels, files, indexes, clock, maxSize, nops, budget,
                   nextBid>>
    /\ LET uri == op[p].coll.TableUri
           docId == op[p].docs[op[p].i]
           docExists == Has(tables, uri) /\ Has(tables[uri], docId)
       IN  \/ /\ UNCHANGED faults
              /\ DeleteDocumentsRound(p, docExists)
           \/ /\ CanFail
              /\ faults' = faults + 1
              /\ DeleteDocumentsRound(p, FALSE)
           \/ /\ docExists
              /\ CanFail
              /\ faults' = faults + 1
              /\ UNCHANGED tables
              /\ Returns(p, "Storage", entries)

DeleteDocumentsStatsGet(p) ==
    /\ pc[p] = "del_stats_get"
    /\ UNCHANGED <<kvVars, files, indexes, clock, maxSize, nops, budget, nextBid>>
    /\ LET key == CollectionKey(op[p].d, op[p].c)
       IN  \/ /\ UNCHANGED faults
              /\ IF Has(stats, key)
                 THEN /\ op' = [op EXCEPT ![p].hot = stats[key]]
                      /\ pc' = [pc EXCEPT ![p] = "del_stats_put"]
                      /\ UNCHANGED <<ret, done, qdocs, entries>>
                 ELSE Returns(p, "ok", entries)
           \/ /\ CanFail
              /\ faults' = faults + 1
              /\ Returns(p, "Storage", entries)

DeleteDocumentsStatsPut(p) ==
    /\ pc[p] = "del_stats_put"
    /\ UNCHANGED <<catalog, tables, labels, files, indexes, clock, maxSize, nops, budget,
                   nextBid>>
    /\ \/ /\ UNCHANGED faults
          /\ LET n == op[p].hot.Doc_Count - op[p].deletedCount
             IN  stats' = Put(stats, CollectionKey(op[p].d, op[p].c),
                              CollectionStats(IF n < 0 THEN 0 ELSE n,
                                              op[p].hot.Vector_Index_Size))
          /\ Returns(p, "ok", entries)
       \/ /\ CanFail
          /\ faults' = faults + 1
          /\ UNCHANGED stats
          /\ Returns(p, "Storage", entries)

\* ------------------------------------------------------------------------
\* UpdateDocuments
\* ------------------------------------------------------------------------
UpdateDocuments(p, d, c, documentId, updates) ==
    /\ CanStart(p)
    /\ UNCHANGED <<kvVars, files, indexes, clock, maxSize, budget, faults, nextBid>>
    /\ IF ~Has(catalog, CollectionKey(d, c))
       THEN Returns(p, "NotFound", entries)
       ELSE IF Len(documentId) = 0
       THEN Returns(p, "InvalidInput", entries)
       ELSE /\ pc' = [pc EXCEPT ![p] = "upd_get"]
            /\ op' = [op EXCEPT ![p] = [IdleOp EXCEPT !.kind = "update",
                                           !.d = d, !.c = c, !.docs = <<documentId>>,
                                           !.updates = updates,
                                           !.coll = catalog[CollectionKey(d, c)]]]
            /\ Begins(p)
    /\ Accepted(p)

\* "if !doc_exists" is tested before doc_get_err: a lookup that fails reports
\* that the row does not exist and the call answers NotFound
UpdateDocumentsGet(p) ==
    /\ pc[p] = "upd_get"
    /\ UNCHANGED <<kvVars, files, indexes, clock, maxSize, nops, budget, nextBid>>
    /\ LET uri == op[p].coll.TableUri
           id  == op[p].docs[1]
       IN  \/ /\ UNCHANGED faults
              /\ IF Has(tables, uri) /\ Has(tables[uri], id)
                 THEN /\ op' = [op EXCEPT ![p].doc = tables[uri][id]]
                      /\ pc' = [pc EXCEPT ![p] = "upd_put"]
                      /\ UNCHANGED <<ret, done, qdocs, entries>>
                 ELSE Returns(p, "NotFound", entries)
           \/ /\ CanFail
              /\ faults' = faults + 1
              /\ Returns(p, "NotFound", entries)

\* The loop replaced by an assignment of payload.Updates to doc.Metadata
ReplaceMetadata(meta, updates) == updates

\* doc.Metadata[key] = value for every key of payload.Updates
MergeMetadata(meta, updates) ==
    [k \in (DOMAIN meta) \cup (DOMAIN updates) |->
        IF k \in DOMAIN updates THEN updates[k] ELSE meta[k]]

UpdateDocumentsPut(p) ==
    /\ pc[p] = "upd_put"
    /\ UNCHANGED <<catalog, stats, labels, files, indexes, clock, maxSize, nops, budget,
                   nextBid>>
    /\ LET uri == op[p].coll.TableUri
           id  == op[p].docs[1]
           doc == [op[p].doc EXCEPT !.Metadata = MergeMetadata(@, op[p].updates)]
       IN  \/ /\ UNCHANGED faults
              /\ IF Has(tables, uri)
                 THEN /\ tables' = Put(tables, uri, Put(tables[uri], id, doc))
                      /\ Returns(p, "ok", entries)
                 ELSE /\ UNCHANGED tables
                      /\ Returns(p, "Storage", entries)
           \/ /\ CanFail
              /\ faults' = faults + 1
              /\ UNCHANGED tables
              /\ Returns(p, "Storage", entries)

\* ------------------------------------------------------------------------
\* Filter evaluator
\* ------------------------------------------------------------------------
\* JSON values are [t, v] with t one of "num", "str", "bool", "nil", "arr",
\* "obj".  An object is the sequence of its <<key, value>> entries in the order
\* the range statement visits them.
BoolVal(b) == [t |-> "bool", v |-> b]

NilVal == [t |-> "nil", v |-> 0]

ArrVal(a) == [t |-> "arr", v |-> a]

ObjVal(entrySeq) == [t |-> "obj", v |-> entrySeq]

Entry(k, v) == [k |-> k, v |-> v]

Matched(m) == [match |-> m, err |-> FALSE]

FilterError == [match |-> FALSE, err |-> TRUE]

IsOperatorKey(k) == Len(k) > 0 /\ SubSeq(k, 1, 1) = "$"

\* toFloat64: the numeric Go types convert, nothing else does
toFloat64Ok(x) == x.t = "num"

\* A float64 is an integer of the model, or NaN
Float(n) == [nan |-> FALSE, n |-> n]

NaN == [nan |-> TRUE, n |-> 0]

\* The < and > of float64: false whenever a side is NaN
FloatLess(a, b) == ~a.nan /\ ~b.nan /\ a.n < b.n

FloatGreater(a, b) == ~a.nan /\ ~b.nan /\ a.n > b.n

toFloat64(x) == Float(x.v)

\* strconv.ParseFloat on the strings of the model: decimal numerals, and
\* "NaN", which it parses without error to the NaN value
ParseFloatOk(str) == str = "NaN" \/ \E n \in 0..9 : FormatInt(n) = str

ParseFloat(str) ==
    IF str = "NaN" THEN NaN ELSE Float(CHOOSE n \in 0..9 : FormatInt(n) = str)

RECURSIVE objectsEqual(_, _)
objectsEqual(a, b) ==
    IF a.t # b.t THEN FALSE
    ELSE IF a.t \in {"arr", "obj"}
    THEN /\ Len(a.v) = Len(b.v)
         /\ \A i \in 1..Len(a.v) :
               IF a.t = "arr" THEN objectsEqual(a.v[i], b.v[i])
               ELSE a.v[i].k = b.v[i].k /\ objectsEqual(a.v[i].v, b.v[i].v)
    ELSE a.v = b.v

\* compareNumbers: [cmp, err]
compareNumbers(val, target) ==
    LET ok1 == toFloat64Ok(val) \/ (val.t = "str" /\ ParseFloatOk(val.v))
        ok2 == toFloat64Ok(target) \/ (target.t = "str" /\ ParseFloatOk(target.v))
        v1  == IF val.t = "str" THEN ParseFloat(val.v) ELSE toFloat64(val)
        v2  == IF target.t = "str" THEN ParseFloat(target.v) ELSE toFloat64(target)
    IN  IF ~ok1 \/ ~ok2 THEN [cmp |-> 0, err |-> TRUE]
        ELSE [cmp |-> IF FloatLess(v1, v2) THEN 0 - 1
                      ELSE IF FloatGreater(v1, v2) THEN 1 ELSE 0,
              err |-> FALSE]

evalIn(docVal, opVal) ==
    IF opVal.t # "arr" THEN FilterError
    ELSE Matched(\E i \in 1..Len(opVal.v) : objectsEqual(docVal, opVal.v[i]))

evalNin(docVal, opVal) ==
    IF opVal.t # "arr" THEN FilterError
    ELSE Matched(~\E i \in 1..Len(opVal.v) : objectsEqual(docVal, opVal.v[i]))

isHashable(x) == x.t \in {"num", "str", "bool"}

\* $arrContains that asks for every element of the argument
evalArrContainsAll(docVal, opVal) ==
    IF docVal.t # "arr" \/ opVal.t # "arr" THEN FilterError
    ELSE Matched(\A i \in 1..Len(opVal.v) :
                    \E j \in 1..Len(docVal.v) : objectsEqual(docVal.v[j], opVal.v[i]))

evalArrContains(docVal, opVal) ==
    IF docVal.t # "arr" \/ opVal.t # "arr" THEN FilterError
    ELSE Matched(\E i \in 1..Len(opVal.v) :
                    \E j \in 1..Len(docVal.v) :
                        /\ isHashable(opVal.v[i]) => isHashable(docVal.v[j])
                        /\ objectsEqual(docVal.v[j], opVal.v[i]))

\* One operator of a field condition
evalOperator(docVal, opName, opVal) ==
    IF opName = "$eq" THEN Matched(objectsEqual(docVal, opVal))
    ELSE IF opName = "$ne" THEN Matched(~objectsEqual(docVal, opVal))
    ELSE IF opName \in {"$gt", "$gte", "$lt", "$lte"}
    THEN LET r == compareNumbers(docVal, opVal)
         IN  IF r.err THEN FilterError
             ELSE Matched(CASE opName = "$gt"  -> r.cmp > 0
                            [] opName = "$gte" -> r.cmp >= 0
                            [] opName = "$lt"  -> r.cmp < 0
                            [] opName = "$lte" -> r.cmp <= 0)
    ELSE IF opName = "$in" THEN evalIn(docVal, opVal)
    ELSE IF opName = "$nin" THEN evalNin(docVal, opVal)
    ELSE IF opName = "$arrContains" THEN evalArrContains(docVal, opVal)
    ELSE FilterError

RECURSIVE checkOperators(_, _)
\* checkCondition's loop that stops after the first operator key
checkFirstOperator(docVal, entrySeq) ==
    IF entrySeq = <<>> THEN Matched(TRUE)
    ELSE IF ~IsOperatorKey(Head(entrySeq).k)
    THEN checkOperators(docVal, Tail(entrySeq))
    ELSE evalOperator(docVal, Head(entrySeq).k, Head(entrySeq).v)

\* checkCondition's loop over the operator keys of the condition
checkOperators(docVal, entrySeq) ==
    IF entrySeq = <<>> THEN Matched(TRUE)
    ELSE IF ~IsOperatorKey(Head(entrySeq).k)
    THEN checkOperators(docVal, Tail(entrySeq))
    ELSE LET r == evalOperator(docVal, Head(entrySeq).k, Head(entrySeq).v)
         IN  IF r.err \/ ~r.match THEN r
             ELSE checkOperators(docVal, Tail(entrySeq))

checkCondition(docVal, condition) ==
    IF condition.t # "obj" THEN Matched(objectsEqual(docVal, condition))
    ELSE IF ~\E i \in 1..Len(condition.v) : IsOperatorKey(condition.v[i].k)
    THEN Matched(objectsEqual(docVal, condition))
    ELSE checkOperators(docVal, condition.v)

RECURSIVE matchesEntries(_, _)
RECURSIVE evalAnd(_, _)
RECURSIVE evalOr(_, _)

\* matchesFilter(docMetadata, filter); filter is an "obj" value
matchesFilter(docMetadata, filter) ==
    IF Len(filter.v) = 0 THEN Matched(TRUE)
    ELSE matchesEntries(docMetadata, filter.v)

\* matchesFilter that looks at the entry its range yields first and at no
\* other
matchesFirstEntry(docMetadata, entrySeq) ==
    IF entrySeq = <<>> THEN Matched(TRUE)
    ELSE LET key == Head(entrySeq).k
             condition == Head(entrySeq).v
         IN  IF IsOperatorKey(key)
             THEN IF key = "$and" THEN evalAnd(docMetadata, condition)
                  ELSE IF key = "$or" THEN evalOr(docMetadata, condition)
                  ELSE FilterError
             ELSE IF ~Has(docMetadata, key) THEN Matched(FALSE)
             ELSE checkCondition(docMetadata[key], condition)

\* The loop of matchesFilter with a missing field read as nil
matchesEntriesAbsentAsNil(docMetadata, entrySeq) ==
    IF entrySeq = <<>> THEN Matched(TRUE)
    ELSE LET key == Head(entrySeq).k
             condition == Head(entrySeq).v
             r == IF IsOperatorKey(key)
                  THEN IF key = "$and" THEN evalAnd(docMetadata, condition)
                       ELSE IF key = "$or" THEN evalOr(docMetadata, condition)
                       ELSE FilterError
                  ELSE checkCondition(IF Has(docMetadata, key)
                                      THEN docMetadata[key] ELSE NilVal,
                                      condition)
         IN  IF r.err \/ ~r.match THEN r
             ELSE matchesEntries(docMetadata, Tail(entrySeq))

\* The loop of matchesFilter over the entries of the filter
matchesEntries(docMetadata, entrySeq) ==
    IF entrySeq = <<>> THEN Matched(TRUE)
    ELSE LET key == Head(entrySeq).k
             condition == Head(entrySeq).v
             r == IF IsOperatorKey(key)
                  THEN IF key = "$and" THEN evalAnd(docMetadata, condition)
                       ELSE IF key = "$or" THEN evalOr(docMetadata, condition)
                       ELSE FilterError
                  ELSE IF ~Has(docMetadata, key) THEN Matched(FALSE)
                  ELSE checkCondition(docMetadata[key], condition)
         IN  IF r.err \/ ~r.match THEN r
             ELSE matchesEntries(docMetadata, Tail(entrySeq))

evalAnd(docMetadata, condition) ==
    IF condition.t # "arr" THEN FilterError
    ELSE IF condition.v = <<>> THEN Matched(TRUE)
    ELSE IF Head(condition.v).t # "obj" THEN FilterError
    ELSE LET r == matchesFilter(docMetadata, Head(condition.v))
         IN  IF r.err \/ ~r.match THEN r
             ELSE evalAnd(docMetadata, ArrVal(Tail(condition.v)))

\* $or that asks every sub-filter to match
evalOrAll(docMetadata, condition) == evalAnd(docMetadata, condition)

\* evalOr: the first sub-filter that matches without error decides
evalOr(docMetadata, condition) ==
    IF condition.t # "arr" THEN FilterError
    ELSE IF condition.v = <<>> THEN Matched(FALSE)
    ELSE IF Head(condition.v).t # "obj" THEN FilterError
    ELSE LET r == matchesFilter(docMetadata, Head(condition.v))
         IN  IF ~r.err /\ r.match THEN Matched(TRUE)
             ELSE evalOr(docMetadata, ArrVal(Tail(condition.v)))

\* ------------------------------------------------------------------------
\* QueryCollection
\* ------------------------------------------------------------------------
RECURSIVE IndexOf(_, _, _)
IndexOf(str, chars, i) ==
    IF i > Len(str) THEN 0
    ELSE IF SubSeq(str, i, i) \in chars THEN i
    ELSE IndexOf(str, chars, i + 1)

\* url.Parse(uri).Path for a relative reference: what precedes the first
\* "#" or "?" (the model has no escapes and no scheme)
UrlPath(uri) ==
    LET cut == IndexOf(uri, {"#", "?"}, 1)
    IN  IF cut = 0 THEN uri ELSE SubSeq(uri, 1, cut - 1)

Min(a, b) == IF a < b THEN a ELSE b

\* idx.Search(query, 1, k) on a flat index: k slots in ascending distance,
\* label -1 in the slots the index cannot fill.  The query embedding lies
\* nearest to the first or to the last vector of the index.
SearchLabels(index, k, emb) ==
    [i \in 1..k |-> IF i > Len(index) THEN 0 - 1
                    ELSE IF emb = "first" THEN i - 1 ELSE Len(index) - i]

SearchDistances(index, k) == [i \in 1..k |-> i - 1]

GlowstickQueryResultSet(doc, distance) ==
    [Id |-> doc.Id, Content |-> doc.Content, Embedding |-> doc.Embedding,
     Metadata |-> doc.Metadata, Distance |-> distance]

QueryFaults == {"label_err", "doc_err", "unmarshal_err"}

\* processDoc: <<>> for nil, else the one result.  fault names the engine
\* failure injected into this lookup.
processDoc(id, distance, fault, q, tableUri, labelTable, collTables) ==
    LET key == FormatInt(id)
    IN  IF fault = "label_err" \/ ~Has(labelTable, key) THEN <<>>
        ELSE IF \/ fault = "doc_err"
                \/ ~Has(collTables, tableUri)
                \/ ~Has(collTables[tableUri], labelTable[key]) THEN <<>>
        ELSE IF fault = "unmarshal_err" THEN <<>>
        ELSE LET doc == collTables[tableUri][labelTable[key]]
             IN  IF q.MaxDistance # 0 /\ distance >= q.MaxDistance THEN <<>>
                 ELSE IF /\ q.Filters.t # "nil"
                         /\ LET r == matchesFilter(doc.Metadata, q.Filters)
                            IN  r.err \/ ~r.match
                 THEN <<>>
                 ELSE <<GlowstickQueryResultSet(doc, distance)>>

QueryCollection(p, d, c, topK, maxDistance, emb, filters) ==
    /\ CanStart(p)
    /\ UNCHANGED <<kvVars, files, indexes, clock, maxSize, budget, faults, nextBid>>
    /\ IF ~Has(catalog, CollectionKey(d, c))
       THEN Returns(p, "NotFound", entries)
       ELSE /\ pc' = [pc EXCEPT ![p] = "q_search"]
            /\ op' = [op EXCEPT ![p] =
                        [IdleOp EXCEPT !.kind = "query", !.d = d, !.c = c,
                            !.coll = catalog[CollectionKey(d, c)],
                            !.q = [IdleQuery EXCEPT !.TopK = topK,
                                      !.MaxDistance = maxDistance,
                                      !.QueryEmbedding = emb,
                                      !.Filters = filters]]]
            /\ Begins(p)
    /\ Accepted(p)

\* numWorkers := min(len(ids), 10)
MaxWorkers == 10

\* start and end position of every worker the loop launches
WorkerStarts(n) ==
    LET numWorkers == Min(n, MaxWorkers)
        chunkSize  == (n + numWorkers - 1) \div numWorkers
        launched   == {i \in 0..(numWorkers - 1) : i * chunkSize < n}
    IN  [w \in 1..Cardinality(launched) |-> (w - 1) * chunkSize]

\* WorkerEnds with every chunk one position too long
WorkerEndsOverlap(n) ==
    LET numWorkers == Min(n, MaxWorkers)
        chunkSize  == (n + numWorkers - 1) \div numWorkers
        starts     == WorkerStarts(n)
    IN  [w \in 1..Len(starts) |-> Min(starts[w] + chunkSize + 1, n)]

WorkerEnds(n) ==
    LET numWorkers == Min(n, MaxWorkers)
        chunkSize  == (n + numWorkers - 1) \div numWorkers
        starts     == WorkerStarts(n)
    IN  [w \in 1..Len(starts) |-> Min(starts[w] + chunkSize, n)]

\* ReadIndex of the collection's file, Search, and the choice of the path
QuerySearch(p) ==
    /\ pc[p] = "q_search"
    /\ UNCHANGED <<kvVars, files, indexes, clock, maxSize, nops, budget, faults, nextBid>>
    /\ LET path == UrlPath(op[p].coll.VectorIndexUri)
           q    == op[p].q
       IN  IF ~Has(files, path)
           THEN Returns(p, "Storage", entries)
           ELSE LET ids == SearchLabels(files[path], q.TopK, q.QueryEmbedding)
                    n   == Len(ids)
                    q1  == [q EXCEPT !.ids = ids,
                               !.distances = SearchDistances(files[path], q.TopK),
                               !.fault = [i \in 1..n |-> "none"],
                               !.seen = [i \in 1..n |-> 0]]
                IN  IF n = 0
                    THEN ReturnsWith(p, "ok", entries, <<>>)
                    ELSE /\ IF n <= 3
                            THEN /\ op' = [op EXCEPT ![p].q = q1, ![p].i = 1]
                                 /\ pc' = [pc EXCEPT ![p] = "q_seq"]
                            ELSE /\ op' = [op EXCEPT ![p].q =
                                             [q1 EXCEPT !.next = WorkerStarts(n),
                                                        !.end = WorkerEnds(n)]]
                                 /\ pc' = [pc EXCEPT ![p] = "q_par"]
                         /\ UNCHANGED <<ret, done, qdocs, entries>>

\* The engine failure a lookup meets, if any
InjectsFault(f) ==
    \/ f = "none" /\ faults' = faults
    \/ f \in QueryFaults /\ CanFail /\ faults' = faults + 1

\* QuerySequential with a lookup that yields nothing ending the query
QuerySequentialAborts(p) ==
    /\ pc[p] = "q_seq"
    /\ op[p].i <= Len(op[p].q.ids)
    /\ UNCHANGED <<kvVars, files, indexes, clock, maxSize, nops, budget, nextBid>>
    /\ \E f \in QueryFaults \cup {"none"} :
        /\ InjectsFault(f)
        /\ LET q == op[p].q
               i == op[p].i
               doc == processDoc(q.ids[i], q.distances[i], f, q,
                                 op[p].coll.TableUri, labels, tables)
           IN  IF doc = <<>>
               THEN Returns(p, "Internal", entries)
               ELSE /\ op' = [op EXCEPT ![p].i = i + 1,
                                        ![p].q = [q EXCEPT !.docs = @ \o doc,
                                                           !.fault[i] = f,
                                                           !.seen[i] = @ + 1]]
                    /\ UNCHANGED <<pc, ret, done, qdocs, entries>>

\* One round of the sequential loop
QuerySequential(p) ==
    /\ pc[p] = "q_seq"
    /\ op[p].i <= Len(op[p].q.ids)
    /\ \E f \in QueryFaults \cup {"none"} :
        /\ InjectsFault(f)
        /\ LET q == op[p].q
               i == op[p].i
               doc == processDoc(q.ids[i], q.distances[i], f, q,
                                 op[p].coll.TableUri, labels, tables)
           IN  op' = [op EXCEPT ![p].i = i + 1,
                                ![p].q = [q EXCEPT !.docs = @ \o doc,
                                                   !.fault[i] = f,
                                                   !.seen[i] = @ + 1]]
    /\ UNCHANGED <<kvVars, files, cacheVars, pc, ret, nops, budget, nextBid,
                   done, qdocs>>

\* The sequential loop is over: return docs, nil
QuerySequentialReturn(p) ==
    /\ pc[p] = "q_seq"
    /\ op[p].i > Len(op[p].q.ids)
    /\ UNCHANGED <<kvVars, files, indexes, clock, maxSize, nops, budget, faults, nextBid>>
    /\ ReturnsWith(p, "ok", entries, op[p].q.docs)

\* A result channel buffered for half of the labels
ResultChanHalf(ids) == Len(ids) \div 2

\* resultChan := make(chan docResult, len(ids))
ResultChanCap(ids) == Len(ids)

\* One round of the loop of worker w: processDoc on its next position and,
\* for a result, the send on resultChan (buffered for len(ids) results)
QueryWorker(p, w) ==
    /\ pc[p] = "q_par"
    /\ w \in 1..Len(op[p].q.next)
    /\ op[p].q.next[w] < op[p].q.end[w]
    /\ UNCHANGED <<kvVars, files, indexes, clock, maxSize, nops, budget, nextBid>>
    /\ \E f \in QueryFaults \cup {"none"} :
        /\ InjectsFault(f)
        /\ LET q == op[p].q
               j == q.next[w]
               doc == processDoc(q.ids[j + 1], q.distances[j + 1], f, q,
                                 op[p].coll.TableUri, labels, tables)
           IN  /\ doc = <<>> \/ Len(q.chan) < ResultChanCap(q.ids)
               /\ op' = [op EXCEPT ![p].q =
                        [q EXCEPT !.next[w] = j + 1,
                                  !.fault[j + 1] = f,
                                  !.seen[j + 1] = @ + 1,
                                  !.chan = IF doc = <<>> THEN @
                                           ELSE Append(@, [doc |-> doc[1], index |-> j])]]
    /\ UNCHANGED <<pc, ret, done, qdocs, entries>>

\* wg.Wait() returned: close(resultChan)
QueryClose(p) ==
    /\ pc[p] = "q_par"
    /\ ~op[p].q.closed
    /\ \A w \in 1..Len(op[p].q.next) : op[p].q.next[w] = op[p].q.end[w]
    /\ op' = [op EXCEPT ![p].q.closed = TRUE]
    /\ UNCHANGED <<kvVars, files, cacheVars, pc, ret, nops, budget, faults,
                   nextBid, done, qdocs>>

\* The collector receives one result: results[result.index] = result.doc
QueryCollect(p) ==
    /\ pc[p] = "q_par"
    /\ op[p].q.chan # <<>>
    /\ LET m == Head(op[p].q.chan)
       IN  op' = [op EXCEPT ![p].q.chan = Tail(@),
                            ![p].q.results = Put(@, m.index, m.doc)]
    /\ UNCHANGED <<kvVars, files, cacheVars, pc, ret, nops, budget, faults,
                   nextBid, done, qdocs>>

\* for i := range ids: the results in the order of the ANN positions
RECURSIVE AssembleFrom(_, _, _)
AssembleFrom(results, i, n) ==
    IF i >= n THEN <<>>
    ELSE (IF Has(results, i) THEN <<results[i]>> ELSE <<>>)
         \o AssembleFrom(results, i + 1, n)

\* resultChan is closed and drained: assemble and return
QueryAssemble(p) ==
    /\ pc[p] = "q_par"
    /\ op[p].q.closed
    /\ op[p].q.chan = <<>>
    /\ UNCHANGED <<kvVars, files, indexes, clock, maxSize, nops, budget, faults, nextBid>>
    /\ ReturnsWith(p, "ok", entries,
                   AssembleFrom(op[p].q.results, 0, Len(op[p].q.ids)))

\* ------------------------------------------------------------------------
\* The process stops and starts again: the cache is gone, the KV tables and
\* the index files stay.
\* ------------------------------------------------------------------------
Restart ==
    /\ \A p \in Procs : pc[p] = "idle"
    /\ nops < budget
    /\ indexes # EmptyMap
    /\ nops' = nops + 1
    /\ indexes' = EmptyMap
    /\ entries' = EmptyMap
    /\ UNCHANGED <<kvVars, files, clock, maxSize, pc, op, ret, budget, faults, nextBid,
                   done, qdocs>>

\* ------------------------------------------------------------------------
\* Inputs of the calls
\* ------------------------------------------------------------------------
\* The collections the callers address: two names in one database, one name
\* in two databases
Targets == {<<"d1", "c1">>, <<"d1", "c2">>, <<"d2", "c1">>}

InsertBatches == {<<"a", "b">>, <<"a", "a">>}

SOABatches == {<<"a">>, <<>>}

DeleteBatches == {<<"a">>, <<>>}

\* Batches whose embeddings differ in dimension from one another, from the
\* other batches, or are empty
EmbeddingBatches ==
    {[docs |-> <<"a", "b">>, dims |-> <<2, 3>>],
     [docs |-> <<"b">>, dims |-> <<3>>],
     [docs |-> <<"a">>, dims |-> <<0>>]}

UpdateInputs == {Put(EmptyMap, "k", NumVal(2)), Put(EmptyMap, "j", NumVal(3))}

FilterGt == ObjVal(<<Entry("k", ObjVal(<<Entry("$gt", NumVal(0))>>))>>)

Query(k, m, e, f) ==
    [TopK |-> k, MaxDistance |-> m, QueryEmbedding |-> e, Filters |-> f]

QueryInputs == {Query(2, 1, "first", NilVal), Query(3, 0, "last", FilterGt)}

InsertSteps(p) ==
    \/ GetOrCreate(p)
    \/ GetOrCreateLocked(p)
    \/ Lock(p)
    \/ InsertNTotal(p)
    \/ InsertDocCommit(p)
    \/ InsertAdd(p)
    \/ InsertLabelCommit(p)
    \/ InsertWriteToFile(p)
    \/ InsertStatsGet(p)
    \/ InsertStatsPut(p)

CatalogSteps(p) ==
    \/ CreateDBPut(p)
    \/ CreateCollectionTable(p)
    \/ CreateCollectionCatalog(p)
    \/ CreateCollectionStats(p)
    \/ DeleteCollectionFile(p)
    \/ DeleteCollectionCatalog(p)
    \/ DeleteCollectionStats(p)
    \/ DeleteDBScan(p)
    \/ DeleteDBTable(p)
    \/ DeleteDBFile(p)
    \/ DeleteDBCatalog(p)
    \/ DeleteDBStats(p)
    \/ DeleteDBEntry(p)

DocumentSteps(p) ==
    \/ DeleteDocumentsOne(p)
    \/ DeleteDocumentsStatsGet(p)
    \/ DeleteDocumentsStatsPut(p)
    \/ UpdateDocumentsGet(p)
    \/ UpdateDocumentsPut(p)

SequentialQuerySteps(p) ==
    \/ QuerySearch(p)
    \/ QuerySequential(p)
    \/ QuerySequentialReturn(p)

ParallelQuerySteps(p) ==
    \/ \E w \in 1..MaxWorkers : QueryWorker(p, w)
    \/ QueryClose(p)
    \/ QueryCollect(p)
    \/ QueryAssemble(p)

\* ------------------------------------------------------------------------
\* Spec: one caller, every operation of the service, engine failures
\* ------------------------------------------------------------------------
Calls(p) ==
    \/ \E d \in Dbs : CreateDB(p, d)
    \/ \E d \in Dbs : DeleteDB(p, d)
    \/ \E t \in Targets : CreateCollection(p, t[1], t[2])
    \/ \E t \in Targets : DeleteCollection(p, t[1], t[2])
    \/ \E t \in Targets, docs \in InsertBatches : InsertDocuments(p, t[1], t[2], docs)
    \/ \E t \in Targets, docs \in SOABatches : InsertDocumentsSOA(p, t[1], t[2], docs)
    \/ \E e \in EmbeddingBatches : InsertEmbeddings(p, "d1", "c1", e.docs, e.dims)
    \/ \E e \in EmbeddingBatches : InsertEmbeddingsSOA(p, "d1", "c1", e.docs, e.dims)
    \/ \E t \in Targets, ids \in DeleteBatches : DeleteDocuments(p, t[1], t[2], ids)
    \/ \E t \in Targets, id \in Ids, u \in UpdateInputs :
          UpdateDocuments(p, t[1], t[2], id, u)
    \/ \E t \in Targets, q \in QueryInputs :
          QueryCollection(p, t[1], t[2], q.TopK, q.MaxDistance, q.QueryEmbedding,
                          q.Filters)

Next ==
    \/ Calls("p1")
    \/ CatalogSteps("p1")
    \/ InsertSteps("p1")
    \/ DocumentSteps("p1")
    \/ SequentialQuerySteps("p1")
    \/ Restart

Spec == Init /\ [][Next]_vars

\* ------------------------------------------------------------------------
\* SpecConc: two callers at once on two collections of one database
\* ------------------------------------------------------------------------
\* The state CreateDB and CreateCollection leave for the collections cs of
\* database d
CatalogOf(d, cs) ==
    PutAll(Put(EmptyMap, DbKey(d), DbCatalogEntry(d)),
           [i \in 1..Len(cs) |-> CollectionKey(d, cs[i])],
           [i \in 1..Len(cs) |-> CollectionCatalogEntry(d, cs[i])])

TablesOf(d, cs) ==
    PutAll(EmptyMap, [i \in 1..Len(cs) |-> CollectionTableUri(d, cs[i])],
           [i \in 1..Len(cs) |-> EmptyMap])

StatsOf(d, cs) ==
    PutAll(EmptyMap, [i \in 1..Len(cs) |-> CollectionKey(d, cs[i])],
           [i \in 1..Len(cs) |-> CollectionStats(0, 0)])

InitWith(d, cs, calls, failures) ==
    /\ catalog = CatalogOf(d, cs)
    /\ tables = TablesOf(d, cs)
    /\ stats = StatsOf(d, cs)
    /\ labels = EmptyMap
    /\ files = EmptyMap
    /\ indexes = EmptyMap
    /\ entries = EmptyMap
    /\ clock = 1
    /\ maxSize = CacheCap
    /\ pc = [p \in Procs |-> "idle"]
    /\ op = [p \in Procs |-> IdleOp]
    /\ ret = [p \in Procs |-> "none"]
    /\ nops = 0
    /\ budget = calls
    /\ faults = MaxFaults - failures
    /\ nextBid = 1
    /\ done = <<>>
    /\ qdocs = [p \in Procs |-> <<>>]

InitConc == InitWith("d1", <<"c1", "c2">>, MaxOpsConc, 0)

ConcBatches == {<<"a">>, <<"a", "b">>}

CallsConc(p) ==
    \/ \E c \in Colls, docs \in ConcBatches : InsertDocuments(p, "d1", c, docs)
    \/ InsertDocumentsSOA(p, "d1", "c1", <<"b">>)
    \/ \E c \in Colls : DeleteDocuments(p, "d1", c, <<"a">>)
    \/ \E c \in Colls, u \in UpdateInputs : UpdateDocuments(p, "d1", c, "a", u)
    \/ \E c \in Colls : QueryCollection(p, "d1", c, 2, 0, "first", NilVal)

NextConc ==
    \E p \in Procs :
        \/ CallsConc(p)
        \/ InsertSteps(p)
        \/ DocumentSteps(p)
        \/ SequentialQuerySteps(p)

SpecConc == InitConc /\ [][NextConc]_vars

\* ------------------------------------------------------------------------
\* SpecQuery: one caller, one collection, queries on both paths, engine
\* failures in the lookups
\* ------------------------------------------------------------------------
InitQuery == InitWith("d1", <<"c1">>, MaxOpsQuery, 1)

QueryInputsPar ==
    {Query(3, 0, "first", FilterGt), Query(4, 2, "first", NilVal),
     Query(5, 0, "last", FilterGt), Query(11, 0, "first", NilVal)}

CallsQuery(p) ==
    \/ InsertDocuments(p, "d1", "c1", <<"a", "b">>)
    \/ DeleteDocuments(p, "d1", "c1", <<"a">>)
    \/ \E u \in UpdateInputs : UpdateDocuments(p, "d1", "c1", "b", u)
    \/ \E q \in QueryInputsPar :
          QueryCollection(p, "d1", "c1", q.TopK, q.MaxDistance, q.QueryEmbedding,
                          q.Filters)

NextQuery ==
    \/ CallsQuery("p1")
    \/ InsertSteps("p1")
    \/ DocumentSteps("p1")
    \/ SequentialQuerySteps("p1")
    \/ ParallelQuerySteps("p1")

SpecQuery == InitQuery /\ [][NextQuery]_vars

\* The goroutines of a parallel query are run: a step of the workers, of
\* the closer or of the collector that stays enabled is taken
SpecQueryLive == SpecQuery /\ WF_vars(ParallelQuerySteps("p1"))

\* ------------------------------------------------------------------------
\* SpecCatalog: one caller, the catalog operations on names that are empty
\* or hold the separator of the catalog keys, engine failures in every step
\* that writes
\* ------------------------------------------------------------------------
CatalogDbs == {"", "d1", "d1.x"}

CatalogColls == {"", "c1", "x.c1"}

InitCatalog ==
    /\ catalog = EmptyMap
    /\ tables = EmptyMap
    /\ stats = EmptyMap
    /\ labels = EmptyMap
    /\ files = EmptyMap
    /\ indexes = EmptyMap
    /\ entries = EmptyMap
    /\ clock = 1
    /\ maxSize = CacheCap
    /\ pc = [p \in Procs |-> "idle"]
    /\ op = [p \in Procs |-> IdleOp]
    /\ ret = [p \in Procs |-> "none"]
    /\ nops = 0
    /\ budget = MaxOpsCatalog
    /\ faults = 0
    /\ nextBid = 1
    /\ done = <<>>
    /\ qdocs = [p \in Procs |-> <<>>]

CallsCatalog(p) ==
    \/ \E d \in CatalogDbs : CreateDB(p, d)
    \/ \E d \in CatalogDbs : DeleteDB(p, d)
    \/ \E d \in CatalogDbs, c \in CatalogColls : CreateCollection(p, d, c)
    \/ \E d \in CatalogDbs, c \in CatalogColls : DeleteCollection(p, d, c)
    \/ \E d \in CatalogDbs, c \in CatalogColls : GetCollection(p, d, c)
    \/ \E d \in CatalogDbs : ListCollections(p, d)
    \/ ListDatabases(p)
    \/ \E c \in CatalogColls, docs \in SOABatches :
          InsertDocuments(p, "d1", c, docs)
    \/ \E c \in CatalogColls, ids \in DeleteBatches :
          DeleteDocuments(p, "d1", c, ids)

CatalogFailures(p) ==
    \/ CreateDBFails(p)
    \/ CreateCollectionFails(p)
    \/ DeleteCollectionFails(p)
    \/ DeleteCollectionStatsIgnored(p)
    \/ DeleteDBFails(p)
    \/ DeleteDBTableBusy(p)

DeleteDocumentsSteps(p) ==
    \/ DeleteDocumentsOne(p)
    \/ DeleteDocumentsStatsGet(p)
    \/ DeleteDocumentsStatsPut(p)

NextCatalog ==
    \/ CallsCatalog("p1")
    \/ CatalogSteps("p1")
    \/ CatalogFailures("p1")
    \/ InsertSteps("p1")
    \/ DeleteDocumentsSteps("p1")

SpecCatalog == InitCatalog /\ [][NextCatalog]_vars

\* ------------------------------------------------------------------------
\* SpecCache: two callers of one IndexCache of capacity 1 or 2, three paths,
\* an engine failure in a write of an index file
\* ------------------------------------------------------------------------
CachePaths == {"x.index", "y.index", "z.index"}

CacheSizes == 1..MaxCacheSize

InitCache ==
    /\ catalog = EmptyMap
    /\ tables = EmptyMap
    /\ stats = EmptyMap
    /\ labels = EmptyMap
    /\ files = EmptyMap
    /\ indexes = EmptyMap
    /\ entries = EmptyMap
    /\ clock = 1
    /\ maxSize \in CacheSizes
    /\ pc = [p \in Procs |-> "idle"]
    /\ op = [p \in Procs |-> IdleOp]
    /\ ret = [p \in Procs |-> "none"]
    /\ nops = 0
    /\ budget = MaxOpsCache
    /\ faults = 0
    /\ nextBid = 1
    /\ done = <<>>
    /\ qdocs = [p \in Procs |-> <<>>]

CallsCache(p) ==
    \/ \E path \in CachePaths : CacheGetOrCreate(p, path)
    \/ \E path \in CachePaths : MarkDirty(p, path)
    \/ \E path \in CachePaths : FlushOne(p, path)
    \/ FlushAll(p)
    \/ \E path \in CachePaths : Remove(p, path)
    \/ Close(p)

CacheSteps(p) ==
    \/ GetOrCreate(p)
    \/ GetOrCreateLocked(p)
    \/ CacheHandleAdd(p)
    \/ CacheHandleDrop(p)
    \/ FlushLookup(p)
    \/ FlushLock(p)
    \/ FlushWrite(p)
    \/ RemoveFree(p)
    \/ CloseFree(p)

NextCache == \E p \in Procs : CallsCache(p) \/ CacheSteps(p)

SpecCache == InitCache /\ [][NextCache]_vars

\* ------------------------------------------------------------------------
\* matchesFilter on its own: one filter and one document metadata, taken
\* from bounded sets.  A filter is a Go map, and a range over a map may visit
\* its entries in any order: every order of a filter's entries is in the set.
\* ------------------------------------------------------------------------
FilterFields == {"k", "j"}

\* Document metadata: no field, field k, fields k and j
FilterDocs ==
    {EmptyMap,
     Put(EmptyMap, "k", NumVal(1)),
     Put(Put(EmptyMap, "k", NumVal(2)), "j", NumVal(1))}

\* The operator mappings with the entries of S, in every order
OperatorMaps(S) == {ObjVal(ops) : ops \in Orders(S)}

\* Conditions of a field predicate: a literal, and operator mappings with
\* one and two operators, known and unknown
FieldConditions ==
    {NumVal(1)}
      \cup OperatorMaps({Entry("$ne", NumVal(1))})
      \cup OperatorMaps({Entry("$nin", ArrVal(<<NumVal(1)>>))})
      \cup OperatorMaps({Entry("$gte", NumVal(1)), Entry("$lte", NumVal(1))})
      \cup OperatorMaps({Entry("$bogus", NumVal(1))})
      \cup OperatorMaps({Entry("$eq", NumVal(1)), Entry("$bogus", NumVal(1))})

FieldEntries == {Entry(f, c) : f \in FilterFields, c \in FieldConditions}

UnknownTopLevel == Entry("$bogus", NumVal(1))

\* Filters without logical operators: up to two entries with different keys
FlatFilters ==
    LET E == FieldEntries \cup {UnknownTopLevel}
    IN  {ObjVal(<<>>)}
          \cup {ObjVal(<<e>>) : e \in E}
          \cup UNION {{ObjVal(<<e1, e2>>) : e2 \in {e \in E : e.k # e1.k}} : e1 \in E}

\* The filters that sub-filter lists are built from
LeafFilters ==
    {ObjVal(<<>>),
     ObjVal(<<Entry("k", NumVal(1))>>),
     ObjVal(<<Entry("k", ObjVal(<<Entry("$ne", NumVal(1))>>))>>),
     ObjVal(<<Entry("j", ObjVal(<<Entry("$bogus", NumVal(1))>>))>>)}

\* The lists of at most two elements of S
ShortLists(S) == {<<>>} \cup {<<x>> : x \in S} \cup {<<x, y>> : x, y \in S}

\* A filter that is one $and or one $or over sub-filters of S
LogicalFilters(S) ==
    {ObjVal(<<Entry(o, ArrVal(a))>>) : o \in {"$and", "$or"}, a \in ShortLists(S)}

\* Filters with logical operators nested at most depth deep
RECURSIVE NestedFilters(_)
NestedFilters(depth) ==
    IF depth = 0 THEN LeafFilters
    ELSE LET S == NestedFilters(depth - 1) IN S \cup LogicalFilters(S)

\* A field predicate beside a logical operator, in both orders
MixedFilters ==
    UNION {{ObjVal(<<l.v[1], e.v[1]>>), ObjVal(<<e.v[1], l.v[1]>>)} :
              l \in LogicalFilters(LeafFilters), e \in LeafFilters \ {ObjVal(<<>>)}}

FilterInputs == FlatFilters \cup NestedFilters(MaxFilterDepth) \cup MixedFilters

ComparisonOperators == {"$gt", "$gte", "$lt", "$lte"}

\* Field values and operands of the comparisons: numbers, strings that parse
\* as numbers, the string "NaN", a string that does not parse, a boolean, nil
ComparisonOperands ==
    {NumVal(1), NumVal(2), StrVal("1"), StrVal("2"), StrVal("NaN"), StrVal("x"),
     BoolVal(TRUE), NilVal}

\* {k: {op: t}} on a document whose field k is v
ComparisonCases ==
    {<<Put(EmptyMap, "k", v), ObjVal(<<Entry("k", ObjVal(<<Entry(o, t)>>))>>)>> :
        v \in ComparisonOperands, o \in ComparisonOperators, t \in ComparisonOperands}

\* Elements of array fields and of $arrContains arguments
ArrayElements == {NumVal(1), StrVal("1"), StrVal("a"), BoolVal(TRUE), NilVal}

Arrays == {ArrVal(a) : a \in ShortLists(ArrayElements)}

\* {k: {$arrContains: arg}} on a document whose field k is an array or a scalar
ArrContainsCases ==
    {<<Put(EmptyMap, "k", v),
       ObjVal(<<Entry("k", ObjVal(<<Entry("$arrContains", arg)>>))>>)>> :
        v \in Arrays \cup {NumVal(1), StrVal("a")}, arg \in Arrays}

\* The <<document metadata, filter>> pairs matchesFilter is called with
FilterCases ==
    (FilterDocs \X FilterInputs) \cup ComparisonCases \cup ArrContainsCases

\* What matchesFilter returns: (true, nil), (false, nil) or (false, err)
FilterResult(r) ==
    IF r.err THEN "FilterSyntax" ELSE IF r.match THEN "true" ELSE "false"

\* A caller calls matchesFilter(docMetadata, filter).  The function shares
\* nothing with other calls: calls are taken one at a time.
MatchesFilterCall(p) ==
    /\ CanStart(p)
    /\ \A q \in Procs : pc[q] = "idle"
    /\ \E case \in FilterCases :
          op' = [op EXCEPT ![p] =
                    [IdleOp EXCEPT !.kind = "filter",
                                   !.doc = GlowstickDocument("x", 0, "nil", case[1]),
                                   !.q = [IdleQuery EXCEPT !.Filters = case[2]]]]
    /\ pc' = [pc EXCEPT ![p] = "mf_eval"]
    /\ Begins(p)
    /\ Accepted(p)
    /\ UNCHANGED <<kvVars, files, indexes, clock, maxSize, budget, faults, nextBid>>

\* The call computes its result
MatchesFilterEval(p) ==
    /\ pc[p] = "mf_eval"
    /\ pc' = [pc EXCEPT ![p] = "mf_ret"]
    /\ ret' = [ret EXCEPT ![p] =
                  FilterResult(matchesFilter(op[p].doc.Metadata, op[p].q.Filters))]
    /\ UNCHANGED <<kvVars, files, cacheVars, op, nops, budget, faults, nextBid,
                   done, qdocs>>

\* The call returns it
MatchesFilterReturn(p) ==
    /\ pc[p] = "mf_ret"
    /\ UNCHANGED <<kvVars, files, indexes, clock, maxSize, nops, budget, faults, nextBid>>
    /\ Returns(p, ret[p], entries)

InitFilter ==
    /\ catalog = EmptyMap
    /\ tables = EmptyMap
    /\ stats = EmptyMap
    /\ labels = EmptyMap
    /\ files = EmptyMap
    /\ indexes = EmptyMap
    /\ entries = EmptyMap
    /\ clock = 1
    /\ maxSize = CacheCap
    /\ pc = [p \in Procs |-> "idle"]
    /\ op = [p \in Procs |-> IdleOp]
    /\ ret = [p \in Procs |-> "none"]
    /\ nops = 0
    /\ budget = MaxOpsFilter
    /\ faults = 0
    /\ nextBid = 1
    /\ done = <<>>
    /\ qdocs = [p \in Procs |-> <<>>]

NextFilter ==
    \E p \in Procs :
        \/ MatchesFilterCall(p)
        \/ MatchesFilterEval(p)
        \/ MatchesFilterReturn(p)

SpecFilter == InitFilter /\ [][NextFilter]_vars

\* ------------------------------------------------------------------------
\* Inserts that a kill of the process interrupts.  The KV store keeps what was
\* committed and the index files keep what was written; the cache and the
\* calls in progress are gone when the process starts again.
\* ------------------------------------------------------------------------
CrashBatches == {<<"a">>, <<"a", "b">>}

\* The process is killed while caller p is inside an insert call, and is
\* started again
Kill(p) ==
    /\ op[p].kind = "insert"
    /\ pc[p] # "idle"
    /\ nops < budget
    /\ nops' = nops + 1
    /\ pc' = [q \in Procs |-> "idle"]
    /\ op' = [q \in Procs |-> IdleOp]
    /\ ret' = [ret EXCEPT ![p] = "killed"]
    /\ indexes' = EmptyMap
    /\ entries' = EmptyMap
    /\ done' = Append(done, [bid |-> op[p].bid, ns |-> op[p].coll.Ns,
                             ids |-> op[p].docs, start |-> op[p].startLabel,
                             labelled |-> pc[p] \in LabelsCommitted,
                             res |-> "killed"])
    /\ UNCHANGED <<kvVars, files, clock, maxSize, budget, faults, nextBid, qdocs>>

InitCrash == InitWith("d1", <<"c1">>, MaxOpsCrash, 0)

CallsCrash(p) ==
    \/ \E docs \in CrashBatches : InsertDocuments(p, "d1", "c1", docs)
    \/ QueryCollection(p, "d1", "c1", 2, 0, "first", NilVal)

NextCrash ==
    \/ CallsCrash("p1")
    \/ InsertSteps("p1")
    \/ SequentialQuerySteps("p1")
    \/ Kill("p1")

SpecCrash == InitCrash /\ [][NextCrash]_vars

\* ------------------------------------------------------------------------
\* Properties
\* ------------------------------------------------------------------------
Quiescent == \A p \in Procs : pc[p] = "idle"

CollectionKeys == {k \in DOMAIN catalog : catalog[k].kind = "coll"}

\* The steps of an insert from the read of ntotal to the write of the file
ModifyThenPersist == {"ntotal", "doc_commit", "add", "label_commit", "write"}

Mutating(p) == op[p].kind = "insert" /\ pc[p] \in ModifyThenPersist

\* C1: at every moment and for every index file path, at most one caller is
\* inside a modify-then-persist sequence (read ntotal, add vectors, write the
\* index file) on an index for that path.
C1_OneMutatorPerPath ==
    \A p, r \in Procs :
        (p # r /\ Mutating(p) /\ Mutating(r))
            => op[p].coll.VectorIndexUri # op[r].coll.VectorIndexUri

\* The insert calls into collection ns that returned, and their label ranges
InsertsInto(ns) == {i \in 1..Len(done) : done[i].ns = ns}

LabelRange(i) == done[i].start .. (done[i].start + Len(done[i].ids) - 1)

RECURSIVE TotalSize(_)
TotalSize(B) ==
    IF B = {} THEN 0
    ELSE LET i == CHOOSE x \in B : TRUE
         IN  Len(done[i].ids) + TotalSize(B \ {i})

\* C2: when all the insert batches submitted, one after another or at once,
\* returned success, then for every collection the index holds as many vectors as the
\* batches had documents, every batch got one contiguous label range, the
\* ranges are pairwise disjoint and together 0..sum-1, every inserted id is
\* reachable through some label, and no label maps to two different ids.
C2_BatchesPartitionLabels ==
    Quiescent =>
        \A k \in CollectionKeys :
            LET B == InsertsInto(k)
                path == catalog[k].VectorIndexUri
                total == TotalSize(B)
            IN  (B # {} /\ \A i \in 1..Len(done) : done[i].res = "ok") =>
                    /\ Has(files, path) /\ Len(files[path]) = total
                    /\ Has(indexes, path) =>
                           Len(entries[indexes[path]].Index) = total
                    /\ \A i, j \in B : i # j => LabelRange(i) \cap LabelRange(j) = {}
                    /\ UNION {LabelRange(i) : i \in B} = 0..(total - 1)
                    /\ \A i \in B : \A n \in 1..Len(done[i].ids) :
                           \E l \in DOMAIN labels : labels[l] = done[i].ids[n]
                    /\ \A i, j \in B :
                           \A n \in 1..Len(done[i].ids), m \in 1..Len(done[j].ids) :
                               done[i].start + n = done[j].start + m
                                   => done[i].ids[n] = done[j].ids[m]

\* An insert call of p returns success in this step
InsertSucceeds(p) ==
    /\ op[p].kind = "insert"
    /\ pc[p] # "idle"
    /\ pc'[p] = "idle"
    /\ ret'[p] = "ok"

\* index holds the vectors vecs at the labels first, first + 1, ...
HoldsAt(index, first, vecs) ==
    /\ Len(index) >= first + Len(vecs)
    /\ SubSeq(index, first + 1, first + Len(vecs)) = vecs

\* C3: an insert returns success only if every step succeeded: at a success
\* return the collection table holds a row for every id of the batch, the index
\* in memory and the index file hold the batch's vectors at the batch's labels,
\* the label table maps the batch's labels to its ids, doc_count has grown by
\* the batch size, and the file equals the index in memory, so that a process
\* that restarts searches the same index.
C3_SuccessMeansEveryStep ==
    [][\A p \in Procs :
          InsertSucceeds(p) =>
              LET o    == op[p]
                  uri  == o.coll.TableUri
                  path == o.coll.VectorIndexUri
                  key  == CollectionKey(o.d, o.c)
                  keys == LabelKeys(o)
              IN  /\ Has(tables', uri)
                  /\ \A i \in 1..Len(o.docs) : Has(tables'[uri], o.docs[i])
                  /\ Has(indexes', path)
                  /\ HoldsAt(entries'[indexes'[path]].Index, o.startLabel,
                             BatchVectors(o))
                  /\ Has(files', path)
                  /\ HoldsAt(files'[path], o.startLabel, BatchVectors(o))
                  /\ files'[path] = entries'[indexes'[path]].Index
                  /\ \A i \in 1..Len(o.docs) :
                        Has(labels', keys[i]) /\ labels'[keys[i]] = o.docs[i]
                  /\ Has(stats, key) /\ Has(stats', key)
                  /\ stats'[key].Doc_Count = stats[key].Doc_Count + Len(o.docs)
      ]_vars

\* A second batch returned success after an engine failure and a restart of
\* the cache or not: the case C3 speaks about has happened
C3_Witness ==
    /\ Quiescent
    /\ faults > 0
    /\ \E i \in 1..Len(done) : done[i].res = "ok" /\ done[i].start > 0

\* C4: the first successful insert of n documents into a newly created
\* collection leaves doc_count = n, ntotal = n in memory and in the file, and
\* the labels 0..n-1 mapped to the n ids in insertion order.  Stated for runs
\* without engine failure and for collections no insert was addressed to before.
C4_FirstBatchStartsAtZero ==
    [][\A p \in Procs :
          (/\ InsertSucceeds(p)
           /\ faults = 0
           /\ InsertsInto(op[p].coll.Ns) = {}) =>
              LET o    == op[p]
                  path == o.coll.VectorIndexUri
                  key  == CollectionKey(o.d, o.c)
                  n    == Len(o.docs)
              IN  /\ stats'[key].Doc_Count = n
                  /\ Len(files'[path]) = n
                  /\ Len(entries[o.cached].Index) = n
                  /\ \A i \in 1..n :
                        /\ Has(labels', FormatInt(i - 1))
                        /\ labels'[FormatInt(i - 1)] = o.docs[i]
      ]_vars

\* C5: with no insert in flight, for every collection and every label of its
\* index, the label table holds the entry of that label and the entry names
\* the document this collection inserted at that label.  Stated for runs
\* without engine failure.
C5_LabelsNameOwnDocuments ==
    (Quiescent /\ faults = 0) =>
        \A k \in CollectionKeys :
            LET path == catalog[k].VectorIndexUri
            IN  Has(files, path) =>
                    \A l \in 0..(Len(files[path]) - 1) :
                        /\ Has(labels, FormatInt(l))
                        /\ files[path][l + 1].ns = k
                        /\ labels[FormatInt(l)] = files[path][l + 1].id

\* C6: with no mutation in flight, after insert and delete calls that all
\* succeeded, doc_count of a collection is the number of rows of its table.
C6_DocCountIsRowCount ==
    (Quiescent /\ faults = 0 /\ \A i \in 1..Len(done) : done[i].res = "ok") =>
        \A k \in CollectionKeys :
            (Has(stats, k) /\ Has(tables, catalog[k].TableUri)) =>
                stats[k].Doc_Count = Cardinality(DOMAIN tables[catalog[k].TableUri])

\* An insert of r is in flight and its label batch is not committed
LabelsUncommitted(r) ==
    /\ op[r].kind = "insert"
    /\ pc[r] \in {"goc_read", "goc_write", "lock", "ntotal", "doc_commit", "add",
                  "label_commit"}

\* The query of p runs its ANN search in this step
QuerySearches(p) ==
    /\ op[p].kind = "query"
    /\ pc[p] = "q_search"
    /\ pc'[p] # "q_search"

\* C7: a query that runs concurrently with an insert never obtains from its
\* ANN search a label of that insert's batch before the batch's labels are
\* committed.
C7_NoLabelBeforeLabelCommit ==
    [][\A p \in Procs :
          QuerySearches(p) =>
              LET path == UrlPath(op[p].coll.VectorIndexUri)
                  ids  == op'[p].q.ids
              IN  \A i \in 1..Len(ids) :
                      ids[i] >= 0 =>
                          \A r \in Procs :
                              LabelsUncommitted(r) =>
                                  files[path][ids[i] + 1].bid # op[r].bid
      ]_vars

\* A query has searched the index of a collection while an insert into that
\* collection has added its vectors and not yet committed its labels
C7_Witness ==
    \E p, r \in Procs :
        /\ pc[p] = "q_seq"
        /\ op[p].i = 1
        /\ \E i \in 1..Len(op[p].q.ids) : op[p].q.ids[i] >= 0
        /\ op[r].kind = "insert"
        /\ pc[r] = "label_commit"
        /\ op[r].coll.VectorIndexUri = op[p].coll.VectorIndexUri

\* p takes a step
Steps(p) == pc'[p] # pc[p] \/ op'[p] # op[p]

HoldsEntryLock(p) ==
    /\ op[p].locked
    /\ Has(entries, op[p].cached)
    /\ entries[op[p].cached].mu = p

\* C8: InsertDocuments, InsertDocumentsSOA, UpdateDocuments and DeleteDocuments
\* write to or delete from a collection table only while they hold the lock
\* of the cache entry of the collection's index.
C8_TableWritesUnderEntryLock ==
    [][\A p \in Procs :
          (/\ op[p].kind \in {"insert", "update", "delete"}
           /\ Steps(p)
           /\ tables' # tables) => HoldsEntryLock(p)
      ]_vars

\* The query of p returns in this step, after its ANN search
QueryReturns(p) ==
    /\ op[p].kind = "query"
    /\ pc[p] \in {"q_seq", "q_par"}
    /\ pc'[p] = "idle"

\* What processing the positions i..n one after another yields
RECURSIVE OneByOne(_, _, _)
OneByOne(o, i, n) ==
    IF i > n THEN <<>>
    ELSE processDoc(o.q.ids[i], o.q.distances[i], o.q.fault[i], o.q,
                    o.coll.TableUri, labels, tables)
         \o OneByOne(o, i + 1, n)

Healthy(o, i) ==
    LET key == FormatInt(o.q.ids[i])
        uri == o.coll.TableUri
    IN  /\ o.q.fault[i] = "none"
        /\ Has(labels, key)
        /\ Has(tables, uri)
        /\ Has(tables[uri], labels[key])
        /\ o.q.MaxDistance = 0 \/ o.q.distances[i] < o.q.MaxDistance
        /\ \/ o.q.Filters.t = "nil"
           \/ LET r == matchesFilter(tables[uri][labels[key]].Metadata, o.q.Filters)
              IN  ~r.err /\ r.match

ResultAt(o, i) ==
    GlowstickQueryResultSet(tables[o.coll.TableUri][labels[FormatInt(o.q.ids[i])]],
                            o.q.distances[i])

NTotalOf(coll) ==
    IF Has(files, UrlPath(coll.VectorIndexUri))
    THEN Len(files[UrlPath(coll.VectorIndexUri)]) ELSE 0

\* Every document a successful insert stored in the collection still has its row
NoDeletedDocuments(coll) ==
    \A i \in InsertsInto(coll.Ns) :
        done[i].res = "ok" =>
            \A j \in 1..Len(done[i].ids) :
                /\ Has(tables, coll.TableUri)
                /\ Has(tables[coll.TableUri], done[i].ids[j])

\* The step with which a query returns, with a result or with an error
QueryEnds(p) ==
    /\ op[p].kind = "query"
    /\ pc[p] # "idle"
    /\ pc'[p] = "idle"

\* C11: on an existing collection with no deleted documents, a collection
\* that never received an insert included, a query with no filter and no
\* max-distance that meets no engine failure succeeds and returns exactly
\* min(top_k, ntotal) results.
C11_QueryReturnsMinTopKNTotal ==
    [][\A p \in Procs :
          (/\ QueryEnds(p)
           /\ faults' = 0
           /\ op[p].q.Filters.t = "nil"
           /\ op[p].q.MaxDistance = 0
           /\ NoDeletedDocuments(op[p].coll))
          => /\ ret'[p] = "ok"
             /\ Len(qdocs'[p]) = Min(op[p].q.TopK, NTotalOf(op[p].coll))
      ]_vars

\* The batch of insert call o must be rejected: an embedding is empty or
\* differs in dimension from the first, or the batch differs in dimension from
\* the index the collection's file holds
MustBeRejected(o) ==
    \/ ~SameDimension(o.dims)
    \/ /\ Has(files, o.coll.VectorIndexUri)
       /\ files[o.coll.VectorIndexUri] # <<>>
       /\ files[o.coll.VectorIndexUri][1].dim # o.dims[1]

\* C12: an insert batch with an empty embedding, with embeddings of different
\* dimensions, or of another dimension than the collection's existing index
\* is rejected with InvalidInput when no engine failure intervenes, and no
\* step of the call stores a document row, a label mapping or a vector or
\* changes the stats.
C12_BadDimensionRejectedUnchanged ==
    [][\A p \in Procs :
          (/\ op[p].kind = "insert"
           /\ Steps(p)
           /\ faults' = 0
           /\ MustBeRejected(op[p]))
          => /\ UNCHANGED <<tables, labels, stats, files>>
             /\ pc'[p] = "idle" => ret'[p] = "InvalidInput"
      ]_vars

\* The catalog holds the record that CreateCollection(c) wrote in database d
HasRecord(d, c) ==
    /\ Has(catalog, CollectionKey(d, c))
    /\ catalog[CollectionKey(d, c)] = CollectionCatalogEntry(d, c)

\* C13: between calls, and as long as no engine failure has occurred, the
\* catalog holds the record of a collection if and only if the KV table of
\* that collection exists.
C13_RecordIffTable ==
    (Quiescent /\ faults = 0) =>
        \A d \in CatalogDbs, c \in CatalogColls :
            (d # "" /\ c # "") =>
                (HasRecord(d, c) <=> Has(tables, CollectionTableUri(d, c)))

\* C14: GetCollection(c) after CreateCollection(c) in database d yields
\* TableUri "table:collection-{c}-{d}" and IndexUri "{vectors_home}/{c}.index";
\* and CreateCollection(c) of a collection the catalog does not hold, be it
\* never created or deleted by DeleteCollection(c), is accepted again.  (Runs
\* without engine failure.)
C14_DerivedUrisAndRecreate ==
    [][\A p \in Procs :
          faults' = 0 =>
            /\ (pc[p] = "cc_stats" /\ pc'[p] = "idle" /\ ret'[p] = "ok") =>
                  LET got == ReadCollection(catalog', stats',
                                            CollectionKey(op[p].d, op[p].c)).Info
                  IN  /\ got.TableUri =
                            "table:collection-" \o op[p].c \o "-" \o op[p].d
                      /\ got.VectorIndexUri =
                            GetVectorsFilePath \o "/" \o op[p].c \o ".index"
            /\ \A d \in CatalogDbs, c \in CatalogColls :
                  (/\ CreateCollection(p, d, c)
                   /\ c # ""
                   /\ ~Has(catalog, CollectionKey(d, c)))
                  => pc'[p] = "cc_table"
      ]_vars

\* The step with which a DeleteDB call returns
DeleteDBReturns(p) ==
    /\ op[p].kind = "deletedb"
    /\ pc[p] # "idle"
    /\ pc'[p] = "idle"

\* The catalog holds no collection record in the key range of database d
NoCollectionOf(cat, d) == \A k \in DOMAIN cat : ~HasPrefix(k, d \o ".")

C16_AlreadyExists ==
    [][\A p \in Procs, d \in CatalogDbs :
          /\ (CreateDB(p, d) /\ Has(catalog, DbKey(d)))
                => /\ ret'[p] = "AlreadyExists"
                   /\ UNCHANGED <<kvVars, files>>
          /\ \A c \in CatalogColls :
                (/\ CreateCollection(p, d, c)
                 /\ c # ""
                 /\ \/ Has(tables, CollectionTableUri(d, c))
                    \/ Has(catalog, CollectionKey(d, c)))
                => /\ ret'[p] = "AlreadyExists"
                   /\ pc'[p] = "idle"
                   /\ UNCHANGED <<kvVars, files>>
      ]_vars

\* C17: DeleteDB of a database that does not exist and DeleteCollection and
\* DeleteDocuments on a collection that does not exist return NotFound; an
\* empty database or collection name, an empty id list and an empty document
\* batch return InvalidInput; none of these calls changes a catalog record, a
\* stats record, a document row, a label mapping or an index file.
C17_RejectedCallsChangeNothing ==
    [][\A p \in Procs, d \in CatalogDbs :
          /\ (CreateDB(p, d) /\ d = "") => ret'[p] = "InvalidInput"
          /\ (DeleteDB(p, d) /\ d = "") => ret'[p] = "InvalidInput"
          /\ (DeleteDB(p, d) /\ d # "" /\ ~Has(catalog, DbKey(d)))
                => ret'[p] = "NotFound"
          /\ \A c \in CatalogColls :
                /\ (CreateCollection(p, d, c) /\ (d = "" \/ c = ""))
                      => /\ pc'[p] = "idle"
                         /\ ret'[p] = "InvalidInput"
                /\ (DeleteCollection(p, d, c) /\ (d = "" \/ c = ""))
                      => /\ pc'[p] = "idle"
                         /\ ret'[p] = "InvalidInput"
                /\ (/\ DeleteCollection(p, d, c)
                    /\ d # "" /\ c # ""
                    /\ ~Has(catalog, CollectionKey(d, c)))
                      => ret'[p] = "NotFound"
                /\ (/\ DeleteDocuments(p, d, c, <<"a">>)
                    /\ d # "" /\ c # ""
                    /\ ~Has(catalog, CollectionKey(d, c)))
                      => ret'[p] = "NotFound"
                /\ DeleteDocuments(p, d, c, <<>>) => ret'[p] = "InvalidInput"
                /\ InsertDocuments(p, d, c, <<>>) => ret'[p] = "InvalidInput"
          /\ (pc[p] = "idle" /\ pc'[p] = "idle" /\ ret'[p] \in {"NotFound", "InvalidInput"})
                => UNCHANGED <<kvVars, files>>
      ]_vars

\* The records of the catalog that were written for a collection of
\* database d, and the databases that exist
CollectionsOf(cat, d) ==
    {cat[k] : k \in {x \in DOMAIN cat :
                       \E c \in CatalogColls \ {""} :
                           cat[x] = CollectionCatalogEntry(d, c)}}

ExistingDatabases(cat) == {d \in CatalogDbs : Has(cat, DbKey(d))}

\* C18: for all database and collection names, ListCollections on database d
\* returns exactly the collections created in d and not since deleted, none
\* of another database, and ListDatabases returns exactly the existing
\* databases, each with collectionCount equal to the number of its
\* collections and empty == (collectionCount = 0).
C18_ListsAreExact ==
    [][\A p \in Procs :
          /\ \A d \in CatalogDbs \ {""} :
                (ListCollections(p, d) /\ faults = 0)
                   => /\ ret'[p] = "ok"
                      /\ {qdocs'[p][i] : i \in DOMAIN qdocs'[p]} = CollectionsOf(catalog, d)
                      /\ Len(qdocs'[p]) = Cardinality(CollectionsOf(catalog, d))
          /\ (ListDatabases(p) /\ faults = 0)
                => /\ ret'[p] = "ok"
                   /\ {qdocs'[p][i] : i \in DOMAIN qdocs'[p]}
                         = {DatabaseInfo(d, Cardinality(CollectionsOf(catalog, d))) :
                               d \in ExistingDatabases(catalog)}
                   /\ Len(qdocs'[p]) = Cardinality(ExistingDatabases(catalog))
      ]_vars

\* The collections other than the one caller p's call is addressed to
OtherCollections(p) ==
    {u \in Targets : u # <<op[p].d, op[p].c>> /\ HasRecord(u[1], u[2])}

\* C19: any two distinct (database, collection) pairs own distinct KV tables
\* and distinct index files, so that a step of an insert into, a delete of
\* documents from, or a delete of one collection leaves the document rows
\* and the index file of every other collection unchanged; collections with
\* the same name in two databases do not share an index.
C19_CollectionsOwnTableAndIndex ==
    [][/\ \A t \in Targets, u \in Targets :
             (t # u /\ HasRecord(t[1], t[2])' /\ HasRecord(u[1], u[2])')
                => /\ CollectionTableUri(t[1], t[2]) # CollectionTableUri(u[1], u[2])
                   /\ CollectionCatalogEntry(t[1], t[2]).VectorIndexUri
                         # CollectionCatalogEntry(u[1], u[2]).VectorIndexUri
       /\ \A p \in Procs :
             (pc[p] # "idle" /\ op[p].kind \in {"insert", "delete", "deletecoll"})
                => \A u \in OtherCollections(p) :
                      LET e == CollectionCatalogEntry(u[1], u[2])
                      IN  /\ Has(tables, e.TableUri)
                             => /\ Has(tables', e.TableUri)
                                /\ tables'[e.TableUri] = tables[e.TableUri]
                          /\ Has(files, e.VectorIndexUri)
                             => /\ Has(files', e.VectorIndexUri)
                                /\ files'[e.VectorIndexUri] = files[e.VectorIndexUri]
      ]_vars

\* A DeleteDocuments call of caller p returns success in this step
DeleteDocumentsReturnsOk(p) ==
    /\ pc[p] \in {"del_doc", "del_stats_get", "del_stats_put"}
    /\ pc'[p] = "idle"
    /\ ret'[p] = "ok"

\* The listed ids whose rows existed when the call began
RowsToRemove(o) ==
    IF Has(o.before.tables, o.coll.TableUri)
    THEN {o.docs[i] : i \in DOMAIN o.docs} \cap DOMAIN o.before.tables[o.coll.TableUri]
    ELSE {}

\* C20: a DeleteDocuments call that succeeds has removed exactly the rows of
\* the listed ids that existed, has left every other row unchanged, and has
\* decreased stats.doc_count by the number of rows removed, never below 0;
\* ids without a row are skipped, so a second delete of the same ids
\* succeeds and leaves doc_count as it is.
C20_DeleteRemovesExistingRows ==
    [][\A p \in Procs :
          DeleteDocumentsReturnsOk(p) =>
             LET o == op[p]
                 uri == o.coll.TableUri
                 key == CollectionKey(o.d, o.c)
                 removed == RowsToRemove(o)
                 n == o.before.stats[key].Doc_Count - Cardinality(removed)
             IN  /\ tables' = IF removed = {} THEN o.before.tables
                              ELSE [o.before.tables EXCEPT
                                       ![uri] = [id \in DOMAIN @ \ removed |-> @[id]]]
                 /\ IF Has(o.before.stats, key)
                    THEN /\ Has(stats', key)
                         /\ stats'[key].Doc_Count = IF n < 0 THEN 0 ELSE n
                    ELSE stats' = o.before.stats
      ]_vars

\* A step of an UpdateDocuments call of caller p
UpdateStep(p) == op[p].kind = "update" /\ pc[p] \in {"upd_get", "upd_put"}

\* doc is old with every key of updates set and nothing else changed
IsMergeOf(doc, old, updates) ==
    /\ doc.Id = old.Id
    /\ doc.Content = old.Content
    /\ doc.Embedding = old.Embedding
    /\ DOMAIN doc.Metadata = DOMAIN old.Metadata \cup DOMAIN updates
    /\ \A k \in DOMAIN updates : doc.Metadata[k] = updates[k]
    /\ \A k \in DOMAIN old.Metadata \ DOMAIN updates :
          doc.Metadata[k] = old.Metadata[k]

\* C21: UpdateDocuments(id, D) on an existing document sets metadata[k] = D[k]
\* for every key k of D, preserves every other metadata key, and leaves the
\* document's id, content and embedding, every other row, the label mappings,
\* the index and the stats unchanged; applied to a document that already
\* holds D it changes nothing; on a missing document it returns NotFound; a
\* call that does not succeed changes nothing.
C21_UpdateMergesMetadata ==
    [][\A p \in Procs :
          UpdateStep(p) =>
             LET uri == op[p].coll.TableUri
                 id  == op[p].docs[1]
                 D   == op[p].updates
                 rowExists == Has(tables, uri) /\ Has(tables[uri], id)
             IN  /\ UNCHANGED <<catalog, stats, labels, files, indexes>>
                 /\ \A r \in DOMAIN entries :
                       r \in DOMAIN entries' /\ entries'[r].Index = entries[r].Index
                 /\ (pc'[p] = "idle" /\ ret'[p] = "ok")
                       => /\ rowExists
                          /\ DOMAIN tables' = DOMAIN tables
                          /\ \A u \in DOMAIN tables \ {uri} : tables'[u] = tables[u]
                          /\ DOMAIN tables'[uri] = DOMAIN tables[uri]
                          /\ \A i \in DOMAIN tables[uri] \ {id} :
                                tables'[uri][i] = tables[uri][i]
                          /\ IsMergeOf(tables'[uri][id], tables[uri][id], D)
                          /\ (\A k \in DOMAIN D :
                                 /\ k \in DOMAIN tables[uri][id].Metadata
                                 /\ tables[uri][id].Metadata[k] = D[k])
                                => tables' = tables
                 /\ ~(pc'[p] = "idle" /\ ret'[p] = "ok") => tables' = tables
                 /\ (pc[p] = "upd_get" /\ ~rowExists)
                       => pc'[p] = "idle" /\ ret'[p] = "NotFound"
      ]_vars

\* A second UpdateDocuments with the same D is about to write a document that
\* already holds D next to a key it had before
C21_Witness ==
    \E p \in Procs :
       /\ pc[p] = "upd_put"
       /\ "j" \in DOMAIN op[p].updates
       /\ "j" \in DOMAIN op[p].doc.Metadata
       /\ op[p].doc.Metadata["j"] = op[p].updates["j"]
       /\ "k" \in DOMAIN op[p].doc.Metadata

\* The batches of one common dimension among the inputs
CommonDimensionBatches ==
    {[docs |-> docs, dims |-> DefaultDims(docs)] : docs \in InsertBatches \cup SOABatches}
       \cup {e \in EmbeddingBatches : SameDimension(e.dims)}

\* The insert call of caller p on the other path, same batch
OtherPath(o) == [o EXCEPT !.soa = ~o.soa]

LabelSlots(o) == o.startLabel .. (o.startLabel + Len(o.docs) - 1)

\* C23: label mapping is append-only: once an insert into a collection has
\* committed a mapping label -> id, no later insert into that collection,
\* after any sequence of successful inserts, failed inserts and restarts,
\* writes that label slot again.
C23_LabelSlotsWrittenOnce ==
    [][\A p \in Procs :
          (pc[p] = "label_commit" /\ pc'[p] = "write") =>
             \A i \in 1..Len(done) :
                (done[i].labelled /\ done[i].ns = op[p].coll.Ns)
                   => LabelRange(i) \cap LabelSlots(op[p]) = {}
      ]_vars

\* The positions of an insert call after docWriter.Commit() has succeeded
AfterFirstCommit == {"add", "label_commit", "write", "stats_get", "stats_put"}

\* The insert call of caller p is past its first commit and this step of it
\* fails: the call returns and the answer is not success
StepAfterCommitFails(p) ==
    /\ op[p].kind = "insert"
    /\ pc[p] \in AfterFirstCommit
    /\ pc'[p] = "idle"
    /\ ret'[p] # "ok"

\* What the insert call of caller p has committed when it stands at pc[p]
\* is in place in the next state
CommittedWritesRemain(p) ==
    LET o == op[p]
        uri == o.coll.TableUri
    IN  /\ UNCHANGED <<catalog, tables, labels, stats, files>>
        /\ Has(tables', uri)
        /\ \A i \in 1..Len(o.docs) : Has(tables'[uri], o.docs[i])
        /\ pc[p] \in LabelsCommitted
              => \A i \in 1..Len(o.docs) :
                    /\ Has(labels', LabelKeys(o)[i])
                    /\ labels'[LabelKeys(o)[i]] = o.docs[i]
        /\ pc[p] \in {"stats_get", "stats_put"}
              => Has(files', o.coll.VectorIndexUri)

Size == Cardinality(DOMAIN indexes)

\* The step of caller p is the locked half of a GetOrCreate that has to
\* insert a new entry into a map that is at capacity
InsertsIntoFullCache(p) ==
    /\ pc[p] = "goc_write"
    /\ pc'[p] = "lock"
    /\ ~Has(indexes, op[p].coll.VectorIndexUri)
    /\ Size >= maxSize

\* The cached paths whose entry has the oldest last-used time
LeastRecentlyUsed ==
    {q \in DOMAIN indexes :
        \A k \in DOMAIN indexes :
            entries[indexes[q]].LastUsed <= entries[indexes[k]].LastUsed}

DirtyPaths == {q \in DOMAIN indexes : entries[indexes[q]].Dirty}

\* The step drops the entry cached for path q from the map
Released(q) == ~Has(indexes', q) \/ indexes'[q] # indexes[q]

\* C26: no entry marked dirty is released, by a capacity eviction, by Remove
\* or by Close, before its in-memory index has been written to its path:
\* after the step that releases it, the index file holds the index as it was
\* in memory.
C26_DirtyEntriesWrittenBeforeRelease ==
    [][\A q \in DirtyPaths :
            Released(q) =>
                /\ Has(files', q)
                /\ files'[q] = entries[indexes[q]].Index]_vars

\* The same with no engine failure: only the interleaving of callers is left
DirtyEntriesWrittenWithoutFailure ==
    [][\A q \in DirtyPaths :
            (faults' = 0 /\ Released(q)) =>
                /\ Has(files', q)
                /\ files'[q] = entries[indexes[q]].Index]_vars

\* ------------------------------------------------------------------------
\* matchesFilter
\* ------------------------------------------------------------------------
\* Caller p has evaluated matchesFilter on its document and filter: the
\* result is in ret[p]
Evaluated(p) == pc[p] = "mf_ret"

DocOf(p) == op[p].doc.Metadata

FilterOf(p) == op[p].q.Filters

HasOperatorKey(condition) ==
    /\ condition.t = "obj"
    /\ \E i \in 1..Len(condition.v) : IsOperatorKey(condition.v[i].k)

\* The condition of a field predicate holds for the value of the field: every
\* operator of an operator mapping holds, and any other condition is equal to
\* the value
ConditionHolds(docVal, condition) ==
    IF HasOperatorKey(condition)
    THEN \A i \in 1..Len(condition.v) :
            IsOperatorKey(condition.v[i].k) =>
                evalOperator(docVal, condition.v[i].k, condition.v[i].v) = Matched(TRUE)
    ELSE objectsEqual(docVal, condition)

\* One top-level entry of a filter holds for the document
EntryHolds(docMetadata, e) ==
    IF IsOperatorKey(e.k)
    THEN \/ e.k = "$and" /\ evalAnd(docMetadata, e.v) = Matched(TRUE)
         \/ e.k = "$or" /\ evalOr(docMetadata, e.v) = Matched(TRUE)
    ELSE /\ Has(docMetadata, e.k)
         /\ ConditionHolds(docMetadata[e.k], e.v)

\* C27: matchesFilter returns true for the empty filter on every document,
\* and otherwise returns true exactly when every top-level entry holds: field
\* predicates and logical operators are AND-combined, and within the operator
\* mapping of one field every $-prefixed operator must hold.
C27_EntriesAreAndCombined ==
    \A p \in Procs :
        Evaluated(p) =>
            /\ FilterOf(p).v = <<>> => ret[p] = "true"
            /\ ret[p] = "true" <=>
                   \A i \in 1..Len(FilterOf(p).v) : EntryHolds(DocOf(p), FilterOf(p).v[i])

\* A filter of two entries, one of them a field predicate whose operator
\* mapping has two operators, has matched
C27_Witness ==
    \E p \in Procs :
        /\ Evaluated(p)
        /\ Len(FilterOf(p).v) = 2
        /\ ret[p] = "true"
        /\ \E i \in 1..2 : /\ HasOperatorKey(FilterOf(p).v[i].v)
                           /\ Len(FilterOf(p).v[i].v.v) = 2

\* A filter holds for a document: every entry holds, where $and holds when
\* all its sub-filters hold, $or when at least one does, and a field
\* predicate when the document has the field and its condition holds
RECURSIVE Holds(_, _)
Holds(docMetadata, filter) ==
    \A i \in 1..Len(filter.v) :
        LET e == filter.v[i]
        IN  IF e.k = "$and"
            THEN \A j \in 1..Len(e.v.v) : Holds(docMetadata, e.v.v[j])
            ELSE IF e.k = "$or"
            THEN \E j \in 1..Len(e.v.v) : Holds(docMetadata, e.v.v[j])
            ELSE /\ ~IsOperatorKey(e.k)
                 /\ Has(docMetadata, e.k)
                 /\ ConditionHolds(docMetadata[e.k], e.v)

\* C28: for every document and every nesting depth, $and over a list of
\* sub-filters matches exactly when all sub-filters match and $or exactly when
\* at least one does, each sub-filter evaluated by the rules of a top-level
\* filter: matchesFilter returns true exactly when the filter holds.
C28_AndOrAtEveryDepth ==
    \A p \in Procs :
        Evaluated(p) => (ret[p] = "true" <=> Holds(DocOf(p), FilterOf(p)))

\* A filter {$and: [{$or: [f1, f2]}, f3]} has matched a document for which
\* f1 does not hold and f2 does
C28_Witness ==
    \E p \in Procs :
        /\ Evaluated(p)
        /\ ret[p] = "true"
        /\ Len(FilterOf(p).v) = 1
        /\ FilterOf(p).v[1].k = "$and"
        /\ Len(FilterOf(p).v[1].v.v) = 2
        /\ LET inner == FilterOf(p).v[1].v.v[1]
           IN  /\ Len(inner.v) = 1
               /\ inner.v[1].k = "$or"
               /\ Len(inner.v[1].v.v) = 2
               /\ ~Holds(DocOf(p), inner.v[1].v.v[1])
               /\ Holds(DocOf(p), inner.v[1].v.v[2])

\* Entry e is a field predicate on a field the document does not have
MissingField(docMetadata, e) == ~IsOperatorKey(e.k) /\ ~Has(docMetadata, e.k)

\* Entry e on its own makes matchesFilter report an error
EntryFails(docMetadata, e) == matchesFilter(docMetadata, ObjVal(<<e>>)).err

\* C29: when the document metadata lacks the field of a field predicate, the
\* predicate does not match, whatever the condition on the field is ($ne and
\* $nin included), and the missing field reports no error: a filter with such
\* a predicate never returns true, and an error it returns comes from another
\* of its entries.
C29_MissingFieldNeverMatches ==
    \A p \in Procs :
        Evaluated(p) =>
            LET f == FilterOf(p).v
                d == DocOf(p)
            IN  /\ (\E i \in 1..Len(f) : MissingField(d, f[i])) => ret[p] # "true"
                /\ (\A i \in 1..Len(f) : MissingField(d, f[i])) /\ f # <<>>
                       => ret[p] = "false"
                /\ ret[p] = "FilterSyntax" =>
                       \E j \in 1..Len(f) : ~MissingField(d, f[j]) /\ EntryFails(d, f[j])

\* A document without field j and the filter {j: {$ne: 1}} or {j: {$nin: [1]}}:
\* the result is false
C29_Witness ==
    \E p \in Procs :
        /\ Evaluated(p)
        /\ DocOf(p) = Put(EmptyMap, "k", NumVal(1))
        /\ Len(FilterOf(p).v) = 1
        /\ FilterOf(p).v[1].k = "j"
        /\ HasOperatorKey(FilterOf(p).v[1].v)
        /\ FilterOf(p).v[1].v.v[1].k \in {"$ne", "$nin"}
        /\ ret[p] = "false"

\* The operators checkCondition knows
KnownOperators ==
    {"$eq", "$ne", "$gt", "$gte", "$lt", "$lte", "$in", "$nin", "$arrContains"}

\* The operator mapping of a field predicate has an unknown $-prefixed key
UnknownFieldOperator(condition) ==
    /\ condition.t = "obj"
    /\ \E m \in 1..Len(condition.v) :
          IsOperatorKey(condition.v[m].k) /\ condition.v[m].k \notin KnownOperators

\* The filter has an unknown $-prefixed top-level key or an unknown field
\* operator, at the top level or inside a $and or $or sub-filter
RECURSIVE HasUnknownOperator(_)
HasUnknownOperator(filter) ==
    \E i \in 1..Len(filter.v) :
        LET e == filter.v[i]
        IN  IF e.k \in {"$and", "$or"}
            THEN \E j \in 1..Len(e.v.v) : HasUnknownOperator(e.v.v[j])
            ELSE IF IsOperatorKey(e.k) THEN TRUE
            ELSE UnknownFieldOperator(e.v)

\* C30: matchesFilter returns an error whenever the filter has an unknown
\* $-prefixed top-level key or a field operator mapping with an unknown
\* $-prefixed operator, whatever the other keys and the document are, and
\* also when the unknown operator is inside a $and or $or sub-filter.
C30_UnknownOperatorIsAnError ==
    \A p \in Procs :
        (Evaluated(p) /\ HasUnknownOperator(FilterOf(p))) => ret[p] = "FilterSyntax"

\* The same for a filter that is the unknown key alone, or one field
\* predicate whose mapping is the unknown operator alone, on a document that
\* has the field
LoneUnknownOperatorIsAnError ==
    \A p \in Procs :
        LET f == FilterOf(p).v
        IN  (/\ Evaluated(p)
             /\ Len(f) = 1
             /\ \/ IsOperatorKey(f[1].k) /\ f[1].k \notin {"$and", "$or"}
                \/ /\ Has(DocOf(p), f[1].k)
                   /\ UnknownFieldOperator(f[1].v)
                   /\ Len(f[1].v.v) = 1)
            => ret[p] = "FilterSyntax"

\* ------------------------------------------------------------------------
\* Comparison operators
\* ------------------------------------------------------------------------
\* The value is a number or a string that parses as a number
Coercible(x) == x.t = "num" \/ (x.t = "str" /\ ParseFloatOk(x.v))

NumericValue(x) == IF x.t = "str" THEN ParseFloat(x.v) ELSE toFloat64(x)

\* The ordered comparison of two float64 values
Ordered(o, a, b) ==
    /\ ~a.nan
    /\ ~b.nan
    /\ CASE o = "$gt"  -> a.n > b.n
         [] o = "$gte" -> a.n >= b.n
         [] o = "$lt"  -> a.n < b.n
         [] o = "$lte" -> a.n <= b.n

\* Caller p has evaluated {k: {op: t}} on a document that has field k
ComparisonEvaluated(p) ==
    /\ Evaluated(p)
    /\ Len(FilterOf(p).v) = 1
    /\ Has(DocOf(p), FilterOf(p).v[1].k)
    /\ FilterOf(p).v[1].v.t = "obj"
    /\ Len(FilterOf(p).v[1].v.v) = 1
    /\ FilterOf(p).v[1].v.v[1].k \in ComparisonOperators

\* What the query pipeline makes of the document: processDoc on a collection
\* that holds it under label 0
Pipeline(docMetadata, filter) ==
    processDoc(0, 0, "none", Query(1, 0, "first", filter), "t",
               Put(EmptyMap, "0", "x"),
               Put(EmptyMap, "t",
                   Put(EmptyMap, "x", GlowstickDocument("x", 0, "nil", docMetadata))))

\* C31: for a present field value v and operand t, $gt/$gte/$lt/$lte match
\* exactly when v and t are numbers or numeric-parseable strings and the
\* ordered comparison of their numeric values holds; when a side is not
\* coercible the condition is an error, and the query pipeline drops the
\* document.
C31_ComparisonsAreOrdered ==
    \A p \in Procs :
        ComparisonEvaluated(p) =>
            LET v == DocOf(p)[FilterOf(p).v[1].k]
                o == FilterOf(p).v[1].v.v[1].k
                t == FilterOf(p).v[1].v.v[1].v
            IN  /\ ret[p] = "true" <=>
                       /\ Coercible(v)
                       /\ Coercible(t)
                       /\ Ordered(o, NumericValue(v), NumericValue(t))
                /\ ret[p] = "FilterSyntax" <=> ~(Coercible(v) /\ Coercible(t))
                /\ ret[p] = "FilterSyntax" => Pipeline(DocOf(p), FilterOf(p)) = <<>>

\* The same when neither side is the string "NaN"
ComparisonsAreOrderedWithoutNaN ==
    \A p \in Procs :
        ComparisonEvaluated(p) =>
            LET v == DocOf(p)[FilterOf(p).v[1].k]
                o == FilterOf(p).v[1].v.v[1].k
                t == FilterOf(p).v[1].v.v[1].v
            IN  (StrVal("NaN") \notin {v, t}) =>
                    /\ ret[p] = "true" <=>
                           /\ Coercible(v)
                           /\ Coercible(t)
                           /\ Ordered(o, NumericValue(v), NumericValue(t))
                    /\ ret[p] = "FilterSyntax" <=> ~(Coercible(v) /\ Coercible(t))
                    /\ ret[p] = "FilterSyntax" => Pipeline(DocOf(p), FilterOf(p)) = <<>>

\* ------------------------------------------------------------------------
\* $arrContains
\* ------------------------------------------------------------------------
\* Equality of two scalars: numbers by value, strings, booleans, nil
ScalarEqual(a, b) == a.t = b.t /\ a.v = b.v

\* Caller p has evaluated {k: {$arrContains: arg}} with an array argument on a
\* document that has field k
ArrContainsEvaluated(p) ==
    /\ Evaluated(p)
    /\ Len(FilterOf(p).v) = 1
    /\ Has(DocOf(p), FilterOf(p).v[1].k)
    /\ FilterOf(p).v[1].v.t = "obj"
    /\ Len(FilterOf(p).v[1].v.v) = 1
    /\ FilterOf(p).v[1].v.v[1].k = "$arrContains"
    /\ FilterOf(p).v[1].v.v[1].v.t = "arr"

\* C32: $arrContains with an array argument matches exactly when the value of
\* the field is an array and at least one of its elements equals at least one
\* element of the argument; a document whose field is not an array is not
\* returned by the query.
C32_ArrContainsSharesAnElement ==
    \A p \in Procs :
        ArrContainsEvaluated(p) =>
            LET v == DocOf(p)[FilterOf(p).v[1].k]
                arg == FilterOf(p).v[1].v.v[1].v
            IN  /\ ret[p] = "true" <=>
                       /\ v.t = "arr"
                       /\ \E i \in 1..Len(arg.v), j \in 1..Len(v.v) :
                             ScalarEqual(v.v[j], arg.v[i])
                /\ v.t # "arr" => Pipeline(DocOf(p), FilterOf(p)) = <<>>
                /\ (Pipeline(DocOf(p), FilterOf(p)) # <<>>) <=> ret[p] = "true"

\* An array field of two elements has matched an argument of two elements
\* through the second element of each only
C32_Witness ==
    \E p \in Procs :
        /\ ArrContainsEvaluated(p)
        /\ ret[p] = "true"
        /\ LET v == DocOf(p)[FilterOf(p).v[1].k]
               arg == FilterOf(p).v[1].v.v[1].v
           IN  /\ v.t = "arr"
               /\ Len(v.v) = 2
               /\ Len(arg.v) = 2
               /\ \A i, j \in 1..2 : ScalarEqual(v.v[j], arg.v[i]) <=> (i = 2 /\ j = 2)

\* ------------------------------------------------------------------------
\* Order of the steps of an insert batch
\* ------------------------------------------------------------------------
\* The positions of an insert call from the commit of the rows on, in order
InsertStages ==
    <<"doc_commit", "add", "label_commit", "write", "stats_get", "stats_put">>

StageOf(position) ==
    IF \E k \in 1..Len(InsertStages) : InsertStages[k] = position
    THEN CHOOSE k \in 1..Len(InsertStages) : InsertStages[k] = position
    ELSE 0

\* Caller p, inside an insert call, takes a step
InsertStep(p) == op[p].kind = "insert" /\ pc'[p] # pc[p]

\* The content of the index file of the collection p inserts into
OwnFile(p, fs) ==
    IF Has(fs, op[p].coll.VectorIndexUri) THEN <<fs[op[p].coll.VectorIndexUri]>> ELSE <<>>

\* The step changes the index p works on
IndexChanges(p) ==
    /\ op[p].cached \in DOMAIN entries
    /\ op[p].cached \in DOMAIN entries'
    /\ entries'[op[p].cached].Index # entries[op[p].cached].Index

\* C33: within every insert batch the visible steps happen in the order
\* commit of the document rows, add of the vectors to the index, commit of the
\* label mappings, write of the index file, update of the stats record, each
\* after the previous one has completed; whenever a label mapping is
\* committed, the document row it names has been committed: the step that
\* leaves doc_commit for add has put every row of the batch into the table,
\* and the label mappings are written two stages later.
C33_InsertStepsInOrder ==
    [][\A p \in Procs :
        InsertStep(p) =>
            /\ StageOf(pc[p]) > 0 =>
                   pc'[p] = "idle" \/ StageOf(pc'[p]) = StageOf(pc[p]) + 1
            /\ tables' # tables => pc[p] = "doc_commit" /\ pc'[p] = "add"
            /\ pc[p] = "doc_commit" /\ pc'[p] = "add" =>
                   \A i \in 1..Len(op[p].docs) :
                       /\ Has(tables', op[p].coll.TableUri)
                       /\ Has(tables'[op[p].coll.TableUri], op[p].docs[i])
            /\ IndexChanges(p) => pc[p] = "add" /\ pc'[p] = "label_commit"
            /\ labels' # labels =>
                   /\ pc[p] = "label_commit"
                   /\ pc'[p] = "write"
                   /\ \A i \in 1..Len(op[p].docs) :
                         labels'[LabelKeys(op[p])[i]] = op[p].docs[i]
            /\ OwnFile(p, files') # OwnFile(p, files) =>
                   pc[p] = "write" /\ pc'[p] = "stats_get"
            /\ stats' # stats => pc[p] = "stats_put" /\ pc'[p] = "idle"]_vars

\* An insert of two documents is about to update the stats record: its rows,
\* its vectors, its label mappings and the index file are in place
C33_Witness ==
    \E p \in Procs :
        /\ op[p].kind = "insert"
        /\ pc[p] = "stats_put"
        /\ Len(op[p].docs) = 2
        /\ Has(files, op[p].coll.VectorIndexUri)
        /\ files[op[p].coll.VectorIndexUri] = entries[op[p].cached].Index
        /\ \A i \in 1..2 :
              /\ Has(tables[op[p].coll.TableUri], op[p].docs[i])
              /\ Has(labels, LabelKeys(op[p])[i])
              /\ labels[LabelKeys(op[p])[i]] = op[p].docs[i]

\* The rows that the label mappings of a batch name are in the table at the
\* moment the mappings are committed
LabelledRowsPresent ==
    [][\A p \in Procs :
        (InsertStep(p) /\ labels' # labels) =>
            \A i \in 1..Len(op[p].docs) :
                /\ Has(tables, op[p].coll.TableUri)
                /\ Has(tables[op[p].coll.TableUri], op[p].docs[i])]_vars

\* ------------------------------------------------------------------------
\* Kill and restart during an insert
\* ------------------------------------------------------------------------
\* The ntotal of the index file of a collection
PersistedNTotal(fs, coll) ==
    IF Has(fs, UrlPath(coll.VectorIndexUri))
    THEN Len(fs[UrlPath(coll.VectorIndexUri)]) ELSE 0

\* The process is killed while p is inside an insert
Killed(p) == op[p].kind = "insert" /\ pc[p] # "idle" /\ ret'[p] = "killed"

\* A query call of p returns, after a kill
QueryReturnsAfterKill(p) ==
    /\ op[p].kind = "query"
    /\ pc[p] # "idle"
    /\ pc'[p] = "idle"
    /\ \E i \in 1..Len(done) : done[i].res = "killed"

\* After a kill inside a batch of n documents, ntotal of the persisted index
\* and the number of label mappings differ by at most n
KillLeavesBoundedGap ==
    [][\A p \in Procs :
        Killed(p) =>
            LET n  == Len(op[p].docs)
                nt == PersistedNTotal(files', op[p].coll)
                lc == Cardinality(DOMAIN labels')
            IN  lc - nt <= n /\ nt - lc <= n]_vars

\* After a kill every label of the persisted index has a label mapping
KillLeavesLabelsMapped ==
    [][\A p \in Procs :
        Killed(p) =>
            \A l \in 0..(PersistedNTotal(files', op[p].coll) - 1) :
                Has(labels', FormatInt(l))]_vars

\* After a kill queries succeed
QueriesSucceedAfterKill ==
    [][\A p \in Procs : QueryReturnsAfterKill(p) => ret'[p] = "ok"]_vars

\* C34: when the process is killed at any point of an insert batch of size n
\* and started again, ntotal of the persisted index and the number of label
\* mappings of the collection differ by at most n, every label of the
\* persisted index has a label mapping, and the queries that follow succeed.
C34_KillLeavesBoundedDivergence ==
    [][\A p \in Procs :
        /\ Killed(p) =>
              LET n  == Len(op[p].docs)
                  nt == PersistedNTotal(files', op[p].coll)
                  lc == Cardinality(DOMAIN labels')
              IN  /\ lc - nt <= n
                  /\ nt - lc <= n
                  /\ \A l \in 0..(nt - 1) : Has(labels', FormatInt(l))
        /\ QueryReturnsAfterKill(p) => ret'[p] = "ok"]_vars

\* ------------------------------------------------------------------------
\* Release of cached indexes
\* ------------------------------------------------------------------------
\* The step frees the index of entry r
Releases(r) ==
    /\ ~entries[r].freed
    /\ r \notin DOMAIN entries' \/ entries'[r].freed

\* A caller holds entry r: GetOrCreate gave it to the caller, which has not
\* finished its call, with or without the lock of the entry
HeldBy(r) == {q \in Procs : pc[q] # "idle" /\ op[q].cached = r}

\* Caller p, inside an insert, adds to its index or writes it
UsesIndex(p) ==
    /\ op[p].kind = "insert"
    /\ pc[p] \in {"add", "write"}
    /\ pc'[p] # pc[p]

\* C35: the index of a cached entry is never released while a caller holds
\* the lock of the entry or a handle GetOrCreate returned and the caller has
\* not finished with; no insert adds to or writes an index that has been
\* freed.
C35_NoReleaseWhileHeld ==
    [][/\ \A r \in DOMAIN entries : Releases(r) => HeldBy(r) = {}
       /\ \A p \in Procs : UsesIndex(p) => ~entries[op[p].cached].freed]_vars

\* No insert adds to or writes an index that has been freed
NoInsertUsesFreedIndex ==
    [][\A p \in Procs : UsesIndex(p) => ~entries[op[p].cached].freed]_vars

\* ------------------------------------------------------------------------
\* Inserts and the operations of the index cache, concurrently, every step
\* of a caller taken eventually
\* ------------------------------------------------------------------------
LockPaths == {VectorIndexUri("c1"), VectorIndexUri("c2")}

\* Size(): len(c.indexes) under the read lock of the map
CacheSize(p) ==
    /\ CanStart(p)
    /\ UNCHANGED <<kvVars, files, indexes, clock, maxSize, budget, faults, nextBid>>
    /\ nops' = nops + 1
    /\ Returns(p, "ok", entries)

InitLocks == InitWith("d1", <<"c1", "c2">>, MaxOpsLocks, 0)

CallsLocks(p) ==
    \/ \E c \in Colls : InsertDocuments(p, "d1", c, <<"a">>)
    \/ \E path \in LockPaths : CacheGetOrCreate(p, path)
    \/ \E path \in LockPaths : MarkDirty(p, path)
    \/ \E path \in LockPaths : FlushOne(p, path)
    \/ FlushAll(p)
    \/ \E path \in LockPaths : Remove(p, path)
    \/ CacheSize(p)
    \/ Close(p)

StepsLocks(p) == InsertSteps(p) \/ CacheSteps(p)

NextLocks == \E p \in Procs : CallsLocks(p) \/ StepsLocks(p)

\* A goroutine that can run is run: every step of a caller that stays
\* enabled is taken
SpecLocks == InitLocks /\ [][NextLocks]_vars /\ \A p \in Procs : WF_vars(StepsLocks(p))

\* ------------------------------------------------------------------------
\* Locks of the index cache
\* ------------------------------------------------------------------------
\* Caller p holds the mutex of an entry
OwnsEntryMutex(p) == \E r \in DOMAIN entries : entries[r].mu = p

\* Caller p is about to take the lock of the map: RLock in GetOrCreate,
\* FlushOne and FlushAll, Lock in GetOrCreate, Remove and Close
RequestsMapLock(p) == pc[p] \in {"goc_read", "goc_write", "fl_next", "rm_free", "cl_free"}

\* Caller p waits for the mutex of an entry another caller holds
AwaitsEntryLock(p) ==
    /\ pc[p] \in {"lock", "fl_lock"}
    /\ entries[op[p].cached].mu \notin {NoProc, p}

\* Some caller has a call in progress and no caller can take a step
Deadlocked ==
    /\ \E p \in Procs : pc[p] # "idle"
    /\ \A p \in Procs : pc[p] # "idle" => AwaitsEntryLock(p)

\* C36: no deadlock is reachable in any interleaving of concurrent inserts
\* and GetOrCreate, MarkDirty, FlushOne, FlushAll, Remove, Size and Close: no
\* caller requests the lock of the map while it holds the mutex of an entry,
\* the callers in progress never all wait for an entry mutex, and every
\* call that has begun returns, every runnable caller being run.
C36_NoDeadlockAndCompletion ==
    /\ [](\A p \in Procs : ~(OwnsEntryMutex(p) /\ RequestsMapLock(p)))
    /\ []~Deadlocked
    /\ \A p \in Procs : (pc[p] # "idle") ~> (pc[p] = "idle")

\* An insert waits for the mutex of the entry a flush holds
C36_Witness ==
    \E p, q \in Procs :
        /\ op[p].kind = "insert"
        /\ AwaitsEntryLock(p)
        /\ op[q].kind \in {"flushone", "flushall", "remove", "close"}
        /\ entries[op[p].cached].mu = q

\* ------------------------------------------------------------------------
\* Termination of the parallel path of QueryCollection
\* ------------------------------------------------------------------------
\* Worker w of the query of p has positions left to process
WorkerRuns(p, w) == op[p].q.next[w] < op[p].q.end[w]

AllWorkersDone(p) == \A w \in 1..Len(op[p].q.next) : ~WorkerRuns(p, w)

\* A send of a worker of p would block: the channel is full
SendBlocks(p) ==
    /\ pc[p] = "q_par"
    /\ \E w \in 1..Len(op[p].q.next) : WorkerRuns(p, w)
    /\ Len(op[p].q.chan) >= ResultChanCap(op[p].q.ids)

\* C37: the parallel path of QueryCollection terminates: with more than 3
\* ANN labels and at most 10 workers in any schedule, no send of a worker
\* blocks, the channel is closed once, after every worker has finished, and
\* never reopened, and the collector then returns.
C37_ParallelPathTerminates ==
    /\ [](\A p \in Procs : ~SendBlocks(p))
    /\ [][\A p \in Procs :
            (pc[p] = "q_par" /\ pc'[p] = "q_par"
             /\ op'[p].q.closed # op[p].q.closed)
            => (~op[p].q.closed /\ AllWorkersDone(p))]_vars
    /\ [](\A p \in Procs :
            (pc[p] = "q_par" /\ op[p].q.closed)
            => (AllWorkersDone(p) /\ Len(op[p].q.next) <= MaxWorkers))
    /\ \A p \in Procs : (pc[p] = "q_par") ~> (pc[p] = "idle")

\* A parallel query over more than three labels whose channel is closed and
\* drained, with results received from more than one worker
C37_Witness ==
    \E p \in Procs :
        /\ pc[p] = "q_par"
        /\ Len(op[p].q.ids) > 3
        /\ Len(op[p].q.next) > 1
        /\ op[p].q.closed
        /\ op[p].q.chan = <<>>
        /\ Cardinality(DOMAIN op[p].q.results) > 1

\* ------------------------------------------------------------------------
\* Document ids of one query result
\* ------------------------------------------------------------------------
\* The ids of the documents of a query result, in the order of the result
ResultIds(docs) == [i \in DOMAIN docs |-> docs[i].Id]

DistinctIds(docs) ==
    \A i, j \in DOMAIN docs : docs[i].Id = docs[j].Id => i = j

\* C38: after inserts, deletes and re-inserts that all succeeded (an id
\* already present inserted again, an id deleted and inserted again), the
\* result of one query never holds the same document id more than once.
C38_QueryResultIdsDistinct ==
    faults = 0 => \A p \in Procs : DistinctIds(qdocs[p])

\* A query returned two documents with different ids
TwoDistinctIdsReturned ==
    \E p \in Procs : ret[p] = "ok" /\ Len(qdocs[p]) = 2 /\ DistinctIds(qdocs[p])

\* ------------------------------------------------------------------------
\* CreateDB and CreateCollection from two callers at once
\* ------------------------------------------------------------------------
InitCreate ==
    /\ catalog = EmptyMap
    /\ tables = EmptyMap
    /\ stats = EmptyMap
    /\ labels = EmptyMap
    /\ files = EmptyMap
    /\ indexes = EmptyMap
    /\ entries = EmptyMap
    /\ clock = 1
    /\ maxSize = CacheCap
    /\ pc = [p \in Procs |-> "idle"]
    /\ op = [p \in Procs |-> IdleOp]
    /\ ret = [p \in Procs |-> "none"]
    /\ nops = 0
    /\ budget = MaxOpsCreate
    /\ faults = 0
    /\ nextBid = 1
    /\ done = <<>>
    /\ qdocs = [p \in Procs |-> <<>>]

CallsCreate(p) ==
    \/ CreateDB(p, "d1")
    \/ \E c \in Colls : CreateCollection(p, "d1", c)

CreateSteps(p) ==
    \/ CreateDBPut(p)
    \/ CreateCollectionTable(p)
    \/ CreateCollectionCatalog(p)
    \/ CreateCollectionStats(p)

NextCreate == \E p \in Procs : CallsCreate(p) \/ CreateSteps(p)

SpecCreate == InitCreate /\ [][NextCreate]_vars

\* Caller p writes the catalog record of its database and returns success
CreateDBSucceeds(p) == pc[p] = "cdb_put" /\ pc'[p] = "idle" /\ ret'[p] = "ok"

\* Caller p writes the catalog record of its collection, the write after
\* which CreateCollection returns success
CreateCollectionWrites(p) == pc[p] = "cc_catalog" /\ pc'[p] = "cc_stats"

\* C39: of two CreateDB calls for one database name, or two CreateCollection
\* calls for one collection of one database, that run at once, at most one
\* returns success and the record it wrote is not written over by the
\* other: a create that succeeds writes a key that has no record.
C39_CreateWritesOnlyAbsentKeys ==
    [][\A p \in Procs :
         /\ CreateDBSucceeds(p) => ~Has(catalog, DbKey(op[p].d))
         /\ CreateCollectionWrites(p)
               => ~Has(catalog, CollectionKey(op[p].d, op[p].c))]_vars

\* Two CreateDB calls for one name that run at once never both pass the
\* check for an existing record
CreateDBChecksExclude ==
    ~(\E p, q \in Procs : p # q /\ pc[p] = "cdb_put" /\ pc[q] = "cdb_put"
                          /\ op[p].d = op[q].d)

\* ------------------------------------------------------------------------
\* Iteration order of the keys of a filter
\* ------------------------------------------------------------------------
\* The orders in which a range over the entries of a Go map can yield them
Permute(entrySeq) ==
    {[i \in 1..Len(entrySeq) |-> entrySeq[o[i]]] : o \in Orders(1..Len(entrySeq))}

\* The orders of the operator keys of the condition of one field entry
ConditionOrders(e) ==
    IF ~IsOperatorKey(e.k) /\ e.v.t = "obj"
    THEN {[k |-> e.k, v |-> ObjVal(c)] : c \in Permute(e.v.v)}
    ELSE {e}

\* The filter in every order of its top-level keys and of the operator keys
\* inside each of its field conditions
Reorderings(filter) ==
    IF filter.t # "obj" THEN {filter}
    ELSE UNION {{ObjVal(g) : g \in {h \in [1..Len(t) -> UNION {ConditionOrders(t[i]) :
                                                                i \in 1..Len(t)}] :
                                     \A i \in 1..Len(t) : h[i] \in ConditionOrders(t[i])}} :
                t \in Permute(filter.v)}

\* What the query pipeline sees of matchesFilter: the document is kept
Observed(docMetadata, filter) == Pipeline(docMetadata, filter) # <<>>

\* C40: for one document and one filter, the outcome the query pipeline
\* sees of matchesFilter (match or no match, an error of an evaluator being a
\* no match) is the same in every iteration order of the top-level keys of
\* the filter and of the operator keys inside each field condition.
C40_OutcomeIndependentOfKeyOrder ==
    \A p \in Procs :
        Evaluated(p) =>
            \A g \in Reorderings(FilterOf(p)) :
                /\ Observed(DocOf(p), g) = (ret[p] = "true")
                /\ Observed(DocOf(p), g) = Observed(DocOf(p), FilterOf(p))

\* A filter of more than one key that one order ends with an error and
\* another with a plain no match
C40_Witness ==
    \E p \in Procs :
        /\ Evaluated(p)
        /\ ret[p] = "FilterSyntax"
        /\ \E g \in Reorderings(FilterOf(p)) :
              /\ g # FilterOf(p)
              /\ matchesFilter(DocOf(p), g) = Matched(FALSE)

\* A filter of two field conditions, one of two operators, that matches in
\* every order
AllOrdersMatch ==
    \E p \in Procs :
        /\ Evaluated(p)
        /\ ret[p] = "true"
        /\ Cardinality(Reorderings(FilterOf(p))) >= 4

====
